---- MODULE Spec2Model ----
(***************************************************************************)
(* The strategic-context-access agent of infinite-chat:                    *)
(* TrueRLMAgent.process_user_query (src/true_rlm_agent.py), its tool       *)
(* dispatch and the Model Backend it calls, as a state machine.            *)
(*                                                                         *)
(* The Model Backend (llm_client.chat) is the environment: every call      *)
(* either raises or returns one of the response shapes below (the          *)
(* repository's own LLMClient.chat takes three arguments and is called     *)
(* with four, so with it every call raises: the raising branch).  Text is  *)
(* abstracted to tokens; the Interaction Log is kept as the number of      *)
(* entries of each type plus, in order, the entries appended during the    *)
(* current iteration (the content of an entry never steers the loop).      *)
(*                                                                         *)
(* Spec is the run of process_user_query; SpecClock is the same run with   *)
(* the wall clock that _recursive_lm_call reads kept in its result;        *)
(* SpecTools is _get_context_chunk and _get_context_overview called on     *)
(* their own against a stored history; SpecSearch is _search_context       *)
(* called the same way; SpecExpand, SpecFuzzy and SpecSnippet apply the    *)
(* functions of FuzzySearch (src/search.py) to inputs drawn from bounded   *)
(* sets, and SpecMatch does so for find_match_positions.  SpecCancel is    *)
(* the run with a caller that may cancel it at a suspension.  SpecStorage  *)
(* is ConversationStorage and RLMStorage (src/storage.py,                  *)
(* src/rlm_storage.py) with their files; SpecChat is concurrent rlm_chat   *)
(* requests (src/api.py) on one conversation.                              *)
(***************************************************************************)
EXTENDS Integers, Sequences, FiniteSets

\* ------------------------------------------------------------------ bounds
\* Longest tool-call batch the scripted backend puts in one response.
MaxBatch == 2

\* ------------------------------------------------------- program constants
\* max_iterations of process_user_query.
max_iterations == 20

\* ---------------------------------------------------------------- state
VARIABLES
    pc,                \* position of process_user_query
    response,          \* last value returned by the root llm_client.chat
    iteration,         \* loop counter
    conversation_log,  \* the Interaction Log
    current_messages,  \* length of the running message buffer
    tool_results,      \* results collected for the batch being executed
    call_idx,          \* position of the for loop in message["tool_calls"]
    tool_call,         \* the call the for loop read last
    result,            \* what execute_context_tool returned last
    root_calls,        \* root llm_client.chat calls issued so far
    total_messages,    \* length of the stored history of the conversation
    exception,         \* the exception the except branch caught, if any
    returned,          \* the object returned to the caller
    full_context,      \* the stored history of the conversation
    arguments,         \* a context tool called on its own: its arguments
    tool_return,       \* a context tool called on its own: the dict it returns
    request,           \* the llm_client.chat call in flight
    recursive_calls,   \* chat calls issued by the tool call read last
    files,             \* the JSON files under the storage directory
    clock,             \* datetime.now() of the next storage operation
    handlers           \* the rlm_chat requests being served

\* The stored history and the variables of a context tool called on its
\* own (SpecTools); a run of process_user_query tells histories apart by
\* their length only.
tool_vars == <<full_context, arguments, tool_return, files, clock, handlers>>

\* The files of ConversationStorage and RLMStorage and the requests served
\* on them; a run of process_user_query and a tool called on its own write
\* none of them.
storage_vars == <<files, clock, handlers>>

\* A storage directory without conversation files, and no request.
NoFiles == <<>>

NoHandlers == <<>>

StorageIdle ==
    /\ files = NoFiles
    /\ clock = 0
    /\ handlers = NoHandlers

\* What process_user_query and its tools have asked of the backend.
call_vars == <<request, recursive_calls>>

vars == <<pc, response, iteration, conversation_log, current_messages,
          tool_results, call_idx, tool_call, result, root_calls,
          total_messages, exception, returned, tool_vars, call_vars>>

\* ------------------------------------------------------------ tool calls
\* The five operations of get_rlm_tools_schema.
ToolNames == {"get_context_overview", "get_context_chunk", "search_context",
              "recursive_lm_call", "final_answer"}

\* What the "arguments" string of a tool call decodes to:
\*   valid      a JSON object with the required fields, accepted by the tool
\*   missing    a JSON object without the tool's required field
\*              (an empty or absent context_subset for recursive_lm_call)
\*   unparsable not JSON at all: json.loads raises
\*   past_end   for get_context_chunk: a JSON object whose start_index is
\*              at or beyond the end of any history of HistoryLengths
ArgKinds == {"valid", "missing", "unparsable", "past_end"}

\* The calls a backend can put in a batch: any declared name or an
\* undeclared one, with any argument payload.  get_context_overview and an
\* undeclared tool read no argument, so "missing" adds nothing for them.
ToolCalls ==
    {c \in [name : ToolNames \cup {"undeclared_tool"}, args : ArgKinds] :
        /\ c.name \in {"get_context_overview", "undeclared_tool"}
              => c.args # "missing"
        /\ c.args = "past_end" => c.name = "get_context_chunk"}

\* Lengths of the stored history the tools run against: the loop can only
\* tell an empty history from a non-empty one.
HistoryLengths == {0, 1}

\* The stored history of n messages, as get_full_history_for_search gives
\* it: the standard track followed by the RLM track.
StoredHistory(n) ==
    [i \in 1..n |-> [id |-> "rlm_1_120000", role |-> "user",
                     content |-> <<"h", "i">>, conversation_mode |-> "rlm"]]

NoCall == [name |-> "none", args |-> "none"]

\* ------------------------------------------------------ backend responses
\* Shapes of a value returned by llm_client.chat, as the loop tells them
\* apart:
\*   tool_calls       choices[0].message has a "tool_calls" list (maybe empty)
\*   null_tool_calls  the key "tool_calls" is present with value null
\*   direct           choices[0].message has no "tool_calls" key
\*   malformed        no "choices" key, or an empty choices list
\* ncalls is the length of the batch.  The calls of a batch are read one by
\* one by the for loop and nothing else looks at them, so each call is
\* drawn from ToolCalls when the loop reaches it.
NoResponse == [kind |-> "none", ncalls |-> 0]

RootResponses ==
    {[kind |-> "tool_calls", ncalls |-> n] : n \in 0..MaxBatch}
    \cup {[kind |-> k, ncalls |-> 0] : k \in {"null_tool_calls", "direct", "malformed"}}

\* Outcomes of the chat call made by _recursive_lm_call.
RecursiveOutcomes == {"content", "malformed", "raised"}

\* -------------------------------------------------------- Interaction Log
LogTypes == {"seed", "tool_request", "tool_result", "direct_response"}

\* conversation_log = [] (also the log of an error result).
EmptyLog == [n |-> [t \in LogTypes |-> 0], tail |-> <<>>]

\* The two seed entries written before the loop starts.
SeedLog == [n |-> [t \in LogTypes |-> IF t = "seed" THEN 2 ELSE 0], tail |-> <<>>]

\* Seeded fault: the new entry is written over the last one.
LogAppend_ReplacesLast(log, entry) ==
    [n |-> log.n, tail |-> Append(SubSeq(log.tail, 1, Len(log.tail) - 1), entry)]

\* conversation_log.append(entry)
LogAppend(log, entry) ==
    [n |-> [log.n EXCEPT ![entry.type] = @ + 1], tail |-> Append(log.tail, entry)]

\* The first append of an iteration: the entries of the iterations before
\* it stay counted in n, the ordered tail starts again.
LogAppendFirst(log, entry) ==
    [n |-> [log.n EXCEPT ![entry.type] = @ + 1], tail |-> <<entry>>]

\* len(conversation_log)
LogLen(log) ==
    log.n["seed"] + log.n["tool_request"] + log.n["tool_result"] + log.n["direct_response"]

LogEntry(type, call, content) == [type |-> type, call |-> call, content |-> content]

\* ---------------------------------------------------------- tool dispatch
\* The dicts a tool returns, by what the loop and the model can tell apart.
ErrorPayloads ==
    {"error: Start index exceeds total messages",
     "error: No context subset provided for recursive LM call",
     "error: Failed recursive LM call",
     "error: Unknown tool"}

\* "error" in the dict.
IsError(res) == res \in ErrorPayloads

\* Seeded fault: the loop tests for a type no tool returns.
IsFinalAnswer_WrongType(res) == res = "final"

\* result.get("type") == "final_answer"
IsFinalAnswer(res) == res = "final_answer"

NoToolResult == "none"

\* args.get('start_index', 0): absent it is 0; a valid call asks for the
\* first message; past_end asks for the message after the longest history.
StartIndex(args) == IF args = "past_end" THEN 1 ELSE 0

\* Seeded fault: the tool does not compare start_index with the length.
GetContextChunk_NoRangeCheck(args, total) == "chunk"

\* _get_context_chunk: start_index >= len(full_context) is the reported
\* error, on an empty history for every start_index.
GetContextChunk(args, total) ==
    IF StartIndex(args) >= total
    THEN "error: Start index exceeds total messages"
    ELSE "chunk"

\* Seeded fault: a name without a branch falls into the first branch.
ExecuteContextTool_UnknownIsOverview(call, total) ==
    CASE call.name = "get_context_chunk" -> GetContextChunk(call.args, total)
      [] call.name = "search_context" -> "search results"
      [] call.name = "recursive_lm_call" ->
            "error: No context subset provided for recursive LM call"
      [] call.name = "final_answer" -> "final_answer"
      [] OTHER -> "overview"

\* execute_context_tool for the tools that return without suspending.
ExecuteContextTool(call, total) ==
    CASE call.name = "get_context_overview" -> "overview"
      [] call.name = "get_context_chunk" -> GetContextChunk(call.args, total)
      [] call.name = "search_context" -> "search results"  \* query defaults to ''
      [] call.name = "recursive_lm_call" ->
            "error: No context subset provided for recursive LM call"
      [] call.name = "final_answer" -> "final_answer"
      [] OTHER -> "error: Unknown tool"

\* _recursive_lm_call once its chat call has come back or raised.
RecursiveResult(outcome) ==
    CASE outcome = "content" -> "recursive result"
      [] outcome = "malformed" -> "result: Recursive LM call failed"
      [] outcome = "raised" -> "error: Failed recursive LM call"

\* Seeded fault: _recursive_lm_call does not look at the context_subset.
CallsBackend_AnySubset(call) == call.name = "recursive_lm_call"

\* A call that suspends on the backend: _recursive_lm_call with a
\* non-empty context_subset.
CallsBackend(call) == call.name = "recursive_lm_call" /\ call.args = "valid"

\* What a log entry or a tool message keeps of a tool result.
Kind(res) ==
    IF IsError(res) THEN "error"
    ELSE IF IsFinalAnswer(res) THEN "final_answer" ELSE "payload"

\* ----------------------------------------------------------- the results
\* A value of the result: the text it is built from and, for a value taken
\* from the arguments of a final_answer call, the position of that call in
\* its batch.
Val(text, of) == [text |-> text, of |-> of]

NotReturned == [status |-> "running"]

\* Seeded fault: the final result counts the iterations from zero.
FinalAnswerResult_CountsFromZero(idx, log, it) ==
    [answer |-> Val("arguments.answer", idx),
     reasoning |-> Val("arguments.reasoning", idx),
     context_sources |-> Val("arguments.context_sources", idx),
     conversation_log |-> log,
     iterations |-> it - 1,
     rlm_pattern |-> "true_rlm",
     processing_time_seconds |-> "elapsed"]

FinalAnswerResult(idx, log, it) ==
    [answer |-> Val("arguments.answer", idx),
     reasoning |-> Val("arguments.reasoning", idx),
     context_sources |-> Val("arguments.context_sources", idx),
     conversation_log |-> log,
     iterations |-> it,
     rlm_pattern |-> "true_rlm",
     processing_time_seconds |-> "elapsed"]

DirectResponseResult(log, it) ==
    [answer |-> Val("message.content", 0),
     reasoning |-> Val("Direct response without tool usage", 0),
     context_sources |-> Val("[]", 0),
     conversation_log |-> log,
     iterations |-> it,
     rlm_pattern |-> "true_rlm",
     processing_time_seconds |-> "elapsed"]

MaxIterationsResult(log, it) ==
    [answer |-> Val("I apologize, but I was unable to process your request within the allowed steps", 0),
     reasoning |-> Val("Max iterations reached without final answer", 0),
     context_sources |-> Val("[]", 0),
     conversation_log |-> log,
     iterations |-> it,
     rlm_pattern |-> "true_rlm",
     processing_time_seconds |-> "elapsed"]

\* Seeded fault: the error result hands back what the loop had accumulated.
ErrorResult_KeepsProgress(e) ==
    [answer |-> Val(e, 0),
     reasoning |-> Val("Error in RLM processing", 0),
     context_sources |-> Val("[]", 0),
     conversation_log |-> conversation_log,
     iterations |-> iteration,
     rlm_pattern |-> "true_rlm",
     processing_time_seconds |-> "elapsed",
     error |-> e]

\* Seeded fault: the error result has no "error" field.
ErrorResult_NoErrorField(e) ==
    [answer |-> Val(e, 0),
     reasoning |-> Val("Error in RLM processing", 0),
     context_sources |-> Val("[]", 0),
     conversation_log |-> EmptyLog,
     iterations |-> 0,
     rlm_pattern |-> "true_rlm",
     processing_time_seconds |-> "elapsed"]

\* The except branch of process_user_query; e is the exception.
ErrorResult(e) ==
    [answer |-> Val(e, 0),
     reasoning |-> Val("Error in RLM processing", 0),
     context_sources |-> Val("[]", 0),
     conversation_log |-> EmptyLog,
     iterations |-> 0,
     rlm_pattern |-> "true_rlm",
     processing_time_seconds |-> "elapsed",
     error |-> e]

\* ------------------------------------------------------ backend requests
\* A chat call by what it carries: who issues it, the system prompt given
\* to chat, what the message list is made of, and how many messages of the
\* running buffer current_messages are in it.
Request(by, system_prompt, messages, buffer) ==
    [by |-> by, system_prompt |-> system_prompt, messages |-> messages, buffer |-> buffer]

\* No chat call is in flight.
NoRequest == Request("none", "none", "none", 0)

\* The initial root call: [user_message] with the root prompt; the buffer
\* is built after it.
InitialMessages == Request("root", "root_lm_system_prompt", "user_message", 0)

\* A later root call: the whole buffer, n messages.
BufferMessages(n) == Request("root", "root_lm_system_prompt", "current_messages", n)

\* Seeded fault: the recursive call is sent the running buffer as well.
RecursiveMessages_WithBuffer(call) ==
    Request(call.name, "recursive_lm_system_prompt",
            "task, prompt, context_subset", current_messages)

\* recursive_messages: the recursive system prompt and one user message
\* made of the task, the prompt and the context_subset of the arguments.
RecursiveMessages(call) ==
    Request(call.name, "recursive_lm_system_prompt",
            "task, prompt, context_subset", 0)

\* ------------------------------------------------------------------ Init
\* The agent is constructed and process_user_query has not been called.
Init ==
    /\ pc = "start"
    /\ response = NoResponse
    /\ iteration = 0
    /\ conversation_log = EmptyLog
    /\ current_messages = 0
    /\ tool_results = <<>>
    /\ call_idx = 0
    /\ tool_call = NoCall
    /\ result = NoToolResult
    /\ root_calls = 0
    /\ total_messages \in HistoryLengths
    /\ exception = "none"
    /\ returned = NotReturned
    /\ full_context = StoredHistory(total_messages)
    /\ arguments = <<>>
    /\ tool_return = <<>>
    /\ request = NoRequest
    /\ recursive_calls = 0
    /\ StorageIdle

\* return <object>: the run is over.
Return(r) ==
    /\ pc' = "done"
    /\ returned' = r

\* Seeded fault: no except branch, the exception leaves process_user_query.
Raise_Escapes(e) ==
    /\ exception' = e
    /\ pc' = "escaped"
    /\ UNCHANGED returned

\* An exception e raised inside the try block: except Exception as e
\* returns the error result.
Raise(e) ==
    /\ exception' = e
    /\ Return(ErrorResult(e))

\* Seeded fault: the while test lets one more iteration through.
LoopGuard_OffByOne(it) == it <= max_iterations

\* while iteration < max_iterations
LoopGuard(it) == it < max_iterations

\* "choices" in response and response["choices"]
HasChoices(r) == r.kind # "malformed"

\* "tool_calls" in message
HasToolCalls(r) == r.kind \in {"tool_calls", "null_tool_calls"}

\* Seeded fault: every collected result carries the id of the first call.
ToolMessage_FirstCallId(idx, res) == [tool_call_id |-> 1, role |-> "tool", content |-> Kind(res)]

\* One tool result as it is put in tool_results.  tool_call["id"] is the id
\* the backend gave the call; the ids of one batch are pairwise distinct, so
\* the id of a call is modelled by its position in the batch.
ToolMessage(idx, res) == [tool_call_id |-> idx, role |-> "tool", content |-> Kind(res)]

\* --------------------------------------------------------------- actions
\* process_user_query up to its first suspension: the prompts are built
\* and the initial root call is issued.
Start ==
    /\ pc = "start"
    /\ pc' = "await_root"
    /\ root_calls' = root_calls + 1
    /\ UNCHANGED <<response, iteration, conversation_log, current_messages,
                   tool_results, call_idx, tool_call, result, total_messages,
                   exception, returned>>
    /\ UNCHANGED tool_vars
    /\ request' = InitialMessages
    /\ UNCHANGED recursive_calls

\* A root llm_client.chat raises: the except branch returns the error
\* result, whatever had been accumulated.
RootRaises ==
    /\ pc = "await_root"
    /\ Raise("backend exception")
    /\ UNCHANGED <<response, iteration, conversation_log, current_messages,
                   tool_results, call_idx, tool_call, result, root_calls,
                   total_messages>>
    /\ UNCHANGED tool_vars
    /\ request' = NoRequest
    /\ UNCHANGED recursive_calls

\* A root llm_client.chat returns r.  After the initial call the log, the
\* running buffer and the counter are set up; then the while test is next.
RootReturns(r) ==
    /\ pc = "await_root"
    /\ response' = r
    /\ pc' = "loop"
    /\ IF root_calls = 1
       THEN /\ conversation_log' = SeedLog
            /\ current_messages' = 2
            /\ iteration' = 0
       ELSE UNCHANGED <<conversation_log, current_messages, iteration>>
    /\ UNCHANGED <<tool_results, call_idx, tool_call, result, root_calls,
                   total_messages, exception, returned>>
    /\ UNCHANGED tool_vars
    /\ request' = NoRequest
    /\ UNCHANGED recursive_calls

\* The while test fails: the fallback after the loop.
ExitLoop ==
    /\ pc = "loop"
    /\ ~LoopGuard(iteration)
    /\ Return(MaxIterationsResult(conversation_log, iteration))
    /\ UNCHANGED <<response, iteration, conversation_log, current_messages,
                   tool_results, call_idx, tool_call, result, root_calls,
                   total_messages, exception>>
    /\ UNCHANGED tool_vars
    /\ UNCHANGED call_vars

\* The response has no usable "choices": else: break, then the same
\* fallback after the loop.
BreakMalformed ==
    /\ pc = "loop"
    /\ LoopGuard(iteration)
    /\ ~HasChoices(response)
    /\ iteration' = iteration + 1
    /\ Return(MaxIterationsResult(conversation_log, iteration + 1))
    /\ UNCHANGED <<response, conversation_log, current_messages, tool_results,
                   call_idx, tool_call, result, root_calls, total_messages,
                   exception>>
    /\ UNCHANGED tool_vars
    /\ UNCHANGED call_vars

\* The message has no "tool_calls" key: direct response.
DirectResponse ==
    /\ pc = "loop"
    /\ LoopGuard(iteration)
    /\ HasChoices(response)
    /\ ~HasToolCalls(response)
    /\ iteration' = iteration + 1
    /\ conversation_log' =
          LogAppendFirst(conversation_log, LogEntry("direct_response", 0, "message.content"))
    /\ Return(DirectResponseResult(conversation_log', iteration + 1))
    /\ UNCHANGED <<response, current_messages, tool_results, call_idx,
                   tool_call, result, root_calls, total_messages, exception>>
    /\ UNCHANGED tool_vars
    /\ UNCHANGED call_vars

\* The message has a "tool_calls" list: the request is logged and the for
\* loop over the batch starts.
BeginBatch ==
    /\ pc = "loop"
    /\ LoopGuard(iteration)
    /\ HasChoices(response)
    /\ HasToolCalls(response)
    /\ response.kind = "tool_calls"
    /\ iteration' = iteration + 1
    /\ conversation_log' =
          LogAppendFirst(conversation_log, LogEntry("tool_request", 0, "tool_calls"))
    /\ tool_results' = <<>>
    /\ call_idx' = 1
    /\ tool_call' = NoCall
    /\ result' = NoToolResult
    /\ pc' = "tools"
    /\ UNCHANGED <<response, current_messages, root_calls, total_messages,
                   exception, returned>>
    /\ UNCHANGED tool_vars
    /\ recursive_calls' = 0
    /\ UNCHANGED request

\* The key "tool_calls" is there with value null: the request is logged,
\* then iterating over None raises.
NullToolCalls ==
    /\ pc = "loop"
    /\ LoopGuard(iteration)
    /\ HasChoices(response)
    /\ HasToolCalls(response)
    /\ response.kind = "null_tool_calls"
    /\ iteration' = iteration + 1
    /\ conversation_log' =
          LogAppendFirst(conversation_log, LogEntry("tool_request", 0, "null"))
    /\ Raise("TypeError")
    /\ UNCHANGED <<response, current_messages, tool_results, call_idx,
                   tool_call, result, root_calls, total_messages>>
    /\ UNCHANGED tool_vars
    /\ UNCHANGED call_vars

\* The for loop reads the call c at position call_idx.
ReadCall(c) ==
    /\ pc = "tools"
    /\ call_idx <= response.ncalls
    /\ tool_call' = c

\* json.loads(tool_call["function"]["arguments"]) raises, outside every
\* try block of the tools.
ArgumentsUnparsable(c) ==
    /\ ReadCall(c)
    /\ c.args = "unparsable"
    /\ Raise("JSONDecodeError")
    /\ UNCHANGED <<response, iteration, conversation_log, current_messages,
                   tool_results, call_idx, result, root_calls, total_messages>>
    /\ UNCHANGED tool_vars
    /\ recursive_calls' = 0
    /\ UNCHANGED request

\* Seeded fault: the tool result is appended to the stored history.
ExecuteTool_StoresResult(c) ==
    /\ ReadCall(c)
    /\ c.args # "unparsable"
    /\ ~CallsBackend(c)
    /\ result' = ExecuteContextTool(c, total_messages)
    /\ ~IsFinalAnswer(result')
    /\ conversation_log' =
          LogAppend(conversation_log, LogEntry("tool_result", call_idx, Kind(result')))
    /\ tool_results' = Append(tool_results, ToolMessage(call_idx, result'))
    /\ call_idx' = call_idx + 1
    /\ UNCHANGED <<pc, response, iteration, current_messages, root_calls,
                   exception, returned>>
    /\ full_context' = full_context \o StoredHistory(1)
    /\ total_messages' = total_messages + 1
    /\ UNCHANGED <<arguments, tool_return, storage_vars>>
    /\ recursive_calls' = 0
    /\ UNCHANGED request

\* A tool that returns without suspending and is not final_answer: its
\* result is logged and collected, the for loop moves on.
ExecuteTool(c) ==
    /\ ReadCall(c)
    /\ c.args # "unparsable"
    /\ ~CallsBackend(c)
    /\ result' = ExecuteContextTool(c, total_messages)
    /\ ~IsFinalAnswer(result')
    /\ conversation_log' =
          LogAppend(conversation_log, LogEntry("tool_result", call_idx, Kind(result')))
    /\ tool_results' = Append(tool_results, ToolMessage(call_idx, result'))
    /\ call_idx' = call_idx + 1
    /\ UNCHANGED <<pc, response, iteration, current_messages, root_calls,
                   total_messages, exception, returned>>
    /\ UNCHANGED tool_vars
    /\ recursive_calls' = 0
    /\ UNCHANGED request

\* final_answer: its result is logged, the for loop breaks and the result
\* is built from the arguments; arguments without "answer" raise KeyError.
FinalAnswer(c) ==
    /\ ReadCall(c)
    /\ c.args # "unparsable"
    /\ ~CallsBackend(c)
    /\ result' = ExecuteContextTool(c, total_messages)
    /\ IsFinalAnswer(result')
    /\ conversation_log' =
          LogAppend(conversation_log, LogEntry("tool_result", call_idx, Kind(result')))
    /\ IF c.args = "valid"
       THEN /\ Return(FinalAnswerResult(call_idx, conversation_log', iteration))
            /\ UNCHANGED exception
       ELSE Raise("KeyError")
    /\ UNCHANGED <<response, iteration, current_messages, tool_results,
                   call_idx, root_calls, total_messages>>
    /\ UNCHANGED tool_vars
    /\ recursive_calls' = 0
    /\ UNCHANGED request

\* recursive_lm_call with a context subset: the tool suspends on its own
\* llm_client.chat call.
RecursiveCall(c) ==
    /\ ReadCall(c)
    /\ c.args # "unparsable"
    /\ CallsBackend(c)
    /\ pc' = "await_rec"
    /\ UNCHANGED <<response, iteration, conversation_log, current_messages,
                   tool_results, call_idx, result, root_calls, total_messages,
                   exception, returned>>
    /\ UNCHANGED tool_vars
    /\ recursive_calls' = 1
    /\ request' = RecursiveMessages(c)

\* The recursive chat call comes back (or raises, which the tool catches);
\* the tool result is logged and collected like any other.
RecursiveReturns(outcome) ==
    /\ pc = "await_rec"
    /\ result' = RecursiveResult(outcome)
    /\ conversation_log' =
          LogAppend(conversation_log, LogEntry("tool_result", call_idx, Kind(result')))
    /\ tool_results' = Append(tool_results, ToolMessage(call_idx, result'))
    /\ call_idx' = call_idx + 1
    /\ pc' = "tools"
    /\ UNCHANGED <<response, iteration, current_messages, tool_call,
                   root_calls, total_messages, exception, returned>>
    /\ UNCHANGED tool_vars
    /\ request' = NoRequest
    /\ UNCHANGED recursive_calls

\* Seeded fault: the next root call is issued without waiting for the rest
\* of the batch.
ContinueLoop_BeforeBatchDone ==
    /\ pc = "tools"
    /\ current_messages' = current_messages + 1 + Len(tool_results)
    /\ root_calls' = root_calls + 1
    /\ pc' = "await_root"
    /\ UNCHANGED <<response, iteration, conversation_log, tool_results,
                   call_idx, tool_call, result, total_messages, exception,
                   returned>>
    /\ UNCHANGED tool_vars
    /\ request' = BufferMessages(current_messages')
    /\ UNCHANGED recursive_calls

\* The batch is done without final_answer: the assistant message and the
\* tool results go to the running buffer and the next root call is issued.
ContinueLoop ==
    /\ pc = "tools"
    /\ call_idx > response.ncalls
    /\ current_messages' = current_messages + 1 + Len(tool_results)
    /\ root_calls' = root_calls + 1
    /\ pc' = "await_root"
    /\ UNCHANGED <<response, iteration, conversation_log, tool_results,
                   call_idx, tool_call, result, total_messages, exception,
                   returned>>
    /\ UNCHANGED tool_vars
    /\ request' = BufferMessages(current_messages')
    /\ UNCHANGED recursive_calls

Next ==
    \/ Start
    \/ RootRaises
    \/ \E r \in RootResponses : RootReturns(r)
    \/ ExitLoop
    \/ BreakMalformed
    \/ DirectResponse
    \/ BeginBatch
    \/ NullToolCalls
    \/ \E c \in ToolCalls : ArgumentsUnparsable(c)
    \/ \E c \in ToolCalls : ExecuteTool(c)
    \/ \E c \in ToolCalls : FinalAnswer(c)
    \/ \E c \in ToolCalls : RecursiveCall(c)
    \/ \E o \in RecursiveOutcomes : RecursiveReturns(o)
    \/ ContinueLoop

Spec == Init /\ [][Next]_vars

\* ============================================================ properties
\* The terminal state of the run, told from the returned object.
Outcome ==
    IF pc # "done" THEN "RUNNING"
    ELSE IF "error" \in DOMAIN returned THEN "DONE_ERROR"
    ELSE IF returned.reasoning.text = "Max iterations reached without final answer"
         THEN "DONE_MAX_ITERATIONS"
    ELSE IF returned.reasoning.text = "Direct response without tool usage"
         THEN "DONE_DIRECT_RESPONSE"
    ELSE "DONE_FINAL_ANSWER"

\* The for loop has read a well-formed final_answer call.
FinalAnswerRead == tool_call = [name |-> "final_answer", args |-> "valid"]

\* How far the run has got: every step moves strictly forward.
StepsPerIteration == 2 * MaxBatch + 6

Progress ==
    CASE pc = "start" -> 0
      [] pc = "await_root" -> iteration * StepsPerIteration + StepsPerIteration - 2
      [] pc = "loop" -> iteration * StepsPerIteration + StepsPerIteration - 1
      [] pc = "tools" -> iteration * StepsPerIteration + 2 * call_idx
      [] pc = "await_rec" -> iteration * StepsPerIteration + 2 * call_idx + 1
      [] OTHER -> (max_iterations + 2) * StepsPerIteration

Rank == (max_iterations + 2) * StepsPerIteration - Progress

\* ---- C1
\* C1 as stated: when the k-th root response is the first to carry a
\* final_answer call, the run ends with the final-answer result,
\* iterations = k and exactly 2k log entries beyond the two seed entries.
C1_Original ==
    (pc = "done" /\ FinalAnswerRead) =>
        /\ Outcome = "DONE_FINAL_ANSWER"
        /\ returned.iterations = root_calls
        /\ LogLen(returned.conversation_log) = 2 + 2 * root_calls

\* C1 amended: when the k-th root response is the first to carry a
\* final_answer call, the run ends with the final-answer result and
\* iterations = k; beyond the two seed entries the log holds k tool_request
\* entries and one tool_result entry per executed call: the calls whose
\* results went to the running buffer in iterations 1..k-1 and the calls of
\* batch k up to and including final_answer.
C1_FinalAnswerAtK ==
    /\ (pc = "done" /\ FinalAnswerRead) => Outcome = "DONE_FINAL_ANSWER"
    /\ Outcome = "DONE_FINAL_ANSWER" =>
        /\ FinalAnswerRead
        /\ returned.iterations = root_calls
        /\ returned.iterations \in 1..max_iterations
        /\ returned.conversation_log.n["seed"] = 2
        /\ returned.conversation_log.n["tool_request"] = root_calls
        /\ returned.conversation_log.n["direct_response"] = 0
        /\ returned.conversation_log.n["tool_result"] =
              (current_messages - 2 - (root_calls - 1)) + call_idx

\* A run that ends on final_answer in the last allowed iteration, with more
\* than one call in some batch.
C1_Witness ==
    /\ Outcome = "DONE_FINAL_ANSWER"
    /\ returned.iterations = max_iterations
    /\ LogLen(returned.conversation_log) > 2 + 2 * max_iterations

\* ---- C2
\* Every root response so far was a tool-call batch whose calls decode and
\* none of which is final_answer, and no root call raised.
OnlyToolBatches ==
    /\ exception # "backend exception"
    /\ response.kind = "tool_calls"
    /\ tool_call.args # "unparsable"
    /\ tool_call.name # "final_answer"

\* C2: the run always terminates (every step lowers Rank, which stays a
\* natural number, and only a finished run has no next step); when every
\* root response carries a tool-call batch without final_answer it ends in
\* the max-iterations result: the apology, the reasoning 'Max iterations
\* reached without final answer', iterations = 20 and the accumulated log.
C2_MaxIterations ==
    /\ [](Rank \in Nat)
    /\ [][Rank' < Rank]_vars
    /\ [](pc = "done" \/ ENABLED Next)
    /\ []((pc = "done" /\ OnlyToolBatches) =>
            /\ iteration = max_iterations
            /\ returned = MaxIterationsResult(conversation_log, max_iterations)
            /\ returned.conversation_log.n["tool_request"] = max_iterations)

C2_Witness ==
    /\ pc = "done"
    /\ OnlyToolBatches
    /\ Outcome = "DONE_MAX_ITERATIONS"
    /\ returned.conversation_log.n["tool_result"] > max_iterations

\* ---- C3
\* C3: the number of root backend calls never exceeds 20.
C3_RootCallsAtMostMaxIterations == root_calls <= max_iterations

\* ---- C4
\* The response carries no tool calls: no "tool_calls" key, or an empty
\* batch.
NoToolCalls(r) == r.kind = "direct" \/ (r.kind = "tool_calls" /\ r.ncalls = 0)

LastLogEntry(log) == log.tail[Len(log.tail)]

\* C4: once the loop body has taken up a response without tool calls, the
\* run is over in DONE_DIRECT_RESPONSE: a direct_response entry is the last
\* log entry, the answer is the response content, context_sources is empty,
\* and neither a tool nor a further backend call follows.
C4_NoToolCallsEndsDirect ==
    (NoToolCalls(response) /\ pc # "loop") =>
        /\ pc = "done"
        /\ Outcome = "DONE_DIRECT_RESPONSE"
        /\ LastLogEntry(returned.conversation_log).type = "direct_response"
        /\ returned.answer = Val("message.content", 0)
        /\ returned.context_sources = Val("[]", 0)

C6_ErrorDiscardsProgress ==
    (pc = "done" /\ exception # "none") =>
        /\ returned.iterations = 0
        /\ returned.conversation_log = EmptyLog
        /\ LogLen(returned.conversation_log) = 0
        /\ "error" \in DOMAIN returned
        /\ returned.error = exception
        /\ returned.answer.text = exception

\* A fault in the last allowed iteration, after tool results were logged.
C6_Witness ==
    /\ pc = "done"
    /\ exception = "JSONDecodeError"
    /\ iteration = max_iterations
    /\ conversation_log.n["tool_result"] > max_iterations

\* ---- C7
ResultFields ==
    {"answer", "reasoning", "context_sources", "conversation_log",
     "iterations", "processing_time_seconds"}

\* C7: whatever the backend returns or raises, the run ends by returning an
\* object with answer, reasoning, context_sources, conversation_log,
\* iterations and processing_time_seconds: an exception is always turned
\* into such an object, and a run that has not returned can still step.
C7_AlwaysWellFormedResult ==
    /\ pc = "done" => ResultFields \subseteq DOMAIN returned
    /\ exception # "none" => pc = "done"
    /\ pc # "done" => (returned = NotReturned /\ ENABLED Next)

\* A malformed final_answer call (no "answer") ended the run.
C7_Witness ==
    /\ pc = "done"
    /\ exception = "KeyError"
    /\ ResultFields \subseteq DOMAIN returned

\* ---- C8
FailedRecursiveCall == "error: Failed recursive LM call"

C9_MalformedResponseIsError ==
    /\ (pc = "done" /\ response.kind = "malformed") => Outcome = "DONE_ERROR"
    /\ Outcome = "DONE_MAX_ITERATIONS" => returned.iterations = max_iterations

\* ---- C10
\* A call of a declared tool whose arguments lack the required field or do
\* not parse.
InvalidArguments(c) == c.name \in ToolNames /\ c.args \in {"missing", "unparsable"}

\* C10: a tool call with invalid arguments never aborts the run: no
\* exception raised on reading or using its arguments reaches the except
\* branch of process_user_query.
C10_InvalidArgumentsNeverAbort ==
    InvalidArguments(tool_call) => exception \notin {"JSONDecodeError", "KeyError"}

\* ---- C11
\* C11: while a batch is executed the collected results are, in order, the
\* results of the calls read so far, each with the id of its call; when the
\* iteration continues the loop, every call of the batch has exactly one
\* result, the i-th result carries the id of the i-th call, and exactly these
\* results follow the assistant message into the running buffer.
C11_ResultsMatchBatch ==
    /\ [](pc \in {"tools", "await_rec"} =>
            /\ Len(tool_results) = call_idx - 1
            /\ \A i \in 1..Len(tool_results) : tool_results[i].tool_call_id = i)
    /\ [][(pc = "tools" /\ pc' = "await_root") =>
            /\ Len(tool_results) = response.ncalls
            /\ \A i \in 1..response.ncalls :
                  Cardinality({j \in 1..Len(tool_results) :
                                  tool_results[j].tool_call_id = i}) = 1
            /\ \A i \in 1..response.ncalls : tool_results[i].tool_call_id = i
            /\ tool_results' = tool_results
            /\ current_messages' = current_messages + 1 + response.ncalls]_vars

\* A later iteration went on to the next root call with a full batch.
C11_Witness ==
    /\ pc = "await_root"
    /\ iteration > 1
    /\ Len(tool_results) = MaxBatch
    /\ current_messages > 2 + MaxBatch + 1

\* ---- C12
\* log2 is log with one entry appended at its end.
IsAppend(log, log2) ==
    /\ Len(log2.tail) >= 1
    /\ LET entry == log2.tail[Len(log2.tail)]
       IN  /\ log2.n[entry.type] = log.n[entry.type] + 1
           /\ \A t \in LogTypes \ {entry.type} : log2.n[t] = log.n[t]
           /\ LogLen(log2) = LogLen(log) + 1
           /\ \/ log2.tail = log.tail \o <<entry>>
              \/ log2.tail = <<entry>>

\* C12 as stated: the log only grows by appends, and the log handed to the
\* caller at termination is the log accumulated so far.
C12_Original ==
    pc = "done" => returned.conversation_log = conversation_log

\* C12 amended: the log is created with its two seed entries and from then
\* on every step leaves it alone or appends one entry at its end, so its
\* length never decreases and no entry is modified or removed; a run that
\* ends without a fault hands the accumulated log to the caller, a run that
\* a fault aborted hands out an empty log instead (the accumulated one is
\* dropped, not emptied).
C12_LogAppendOnly ==
    /\ [][\/ conversation_log' = conversation_log
          \/ (root_calls = 1 /\ pc = "await_root" /\ conversation_log' = SeedLog)
          \/ (root_calls >= 1 /\ pc # "await_root" /\
              IsAppend(conversation_log, conversation_log'))]_vars
    /\ [][/\ LogLen(conversation_log') >= LogLen(conversation_log)
          /\ \A t \in LogTypes : conversation_log'.n[t] >= conversation_log.n[t]
          /\ (Len(conversation_log'.tail) > 1 =>
                SubSeq(conversation_log'.tail, 1, Len(conversation_log.tail))
                    = conversation_log.tail)]_vars
    /\ []((pc = "done" /\ exception = "none") =>
            returned.conversation_log = conversation_log)
    /\ []((pc = "done" /\ exception # "none") =>
            returned.conversation_log = EmptyLog)

\* A fault after tool results were logged: the caller gets an empty log
\* while the accumulated one holds entries.
C12_Witness ==
    /\ pc = "done"
    /\ exception = "KeyError"
    /\ conversation_log.n["tool_result"] >= 2
    /\ returned.conversation_log = EmptyLog

\* ---- C13
\* A backend call has been issued and has not come back: the coroutine is
\* suspended on llm_client.chat, at the root or inside recursive_lm_call.
InFlight ==
    (IF pc = "await_root" THEN 1 ELSE 0) + (IF pc = "await_rec" THEN 1 ELSE 0)

\* This step issues a backend call.
IssuesCall == root_calls' = root_calls + 1 \/ (pc # "await_rec" /\ pc' = "await_rec")

\* The entries logged in the current iteration are the tool_request entry
\* followed by the tool_result entries of the calls 1..k, in that order.
LoggedInOrder(k) ==
    /\ Len(conversation_log.tail) = k + 1
    /\ conversation_log.tail[1].type = "tool_request"
    /\ \A i \in 1..k :
          /\ conversation_log.tail[i + 1].type = "tool_result"
          /\ conversation_log.tail[i + 1].call = i

\* C13: at most one backend call is in flight: a call is issued only while
\* none is pending, and a pending call only comes back or raises.  The
\* calls of a batch are executed one at a time in the order presented: the
\* for loop moves on by one call per executed tool, the tool_result entries
\* of the iteration follow its tool_request entry in the order of the
\* calls, and all of them are in the log when the next root call is issued.
C13_SequentialExecution ==
    /\ [](InFlight <= 1)
    /\ [][IssuesCall => (InFlight = 0 /\ InFlight' = 1)]_vars
    /\ [][InFlight = 1 => (~IssuesCall /\ InFlight' = 0)]_vars
    /\ [][call_idx' \in {call_idx, call_idx + 1} \/ pc = "loop"]_vars
    /\ [](pc \in {"tools", "await_rec"} => LoggedInOrder(call_idx - 1))
    /\ []((pc = "await_root" /\ root_calls > 1) => LoggedInOrder(response.ncalls))

\* A full batch holding a recursive call that came back has been executed
\* and the next root call is pending.
C13_Witness ==
    /\ pc = "await_root"
    /\ root_calls > 2
    /\ response.ncalls = MaxBatch
    /\ LoggedInOrder(MaxBatch)
    /\ result = "recursive result"

\* ---- C14
\* The run with the wall clock kept.  Spec leaves every timestamp out;
\* _recursive_lm_call puts datetime.now() in the dict it returns, and the
\* loop writes json.dumps of that dict into the content of the tool_result
\* entry and of the tool message.  ClockReadings are the values now() can
\* give when the recursive chat call has come back.
ClockReadings == {1, 2}

\* _recursive_lm_call once its chat call has come back or raised, at time
\* now: the dict has a "timestamp" unless the call raised.
RecursiveResultAt(outcome, now) ==
    CASE outcome = "raised" -> RecursiveResult(outcome)
      [] outcome = "content" /\ now = 1 -> "recursive result, timestamp 1"
      [] outcome = "content" /\ now = 2 -> "recursive result, timestamp 2"
      [] outcome = "malformed" /\ now = 1 -> "result: Recursive LM call failed, timestamp 1"
      [] outcome = "malformed" /\ now = 2 -> "result: Recursive LM call failed, timestamp 2"

\* json.dumps(result) as far as two results can differ: a dict with a clock
\* reading keeps it.
Dumps(res) ==
    IF res \in {RecursiveResultAt(o, now) : o \in {"content", "malformed"}, now \in ClockReadings}
    THEN res
    ELSE Kind(res)

\* RecursiveReturns with the clock read at now.
RecursiveReturnsAt(outcome, now) ==
    /\ pc = "await_rec"
    /\ result' = RecursiveResultAt(outcome, now)
    /\ conversation_log' =
          LogAppend(conversation_log, LogEntry("tool_result", call_idx, Dumps(result')))
    /\ tool_results' =
          Append(tool_results,
                 [tool_call_id |-> call_idx, role |-> "tool", content |-> Dumps(result')])
    /\ call_idx' = call_idx + 1
    /\ pc' = "tools"
    /\ UNCHANGED <<response, iteration, current_messages, tool_call,
                   root_calls, total_messages, exception, returned>>
    /\ UNCHANGED tool_vars
    /\ request' = NoRequest
    /\ UNCHANGED recursive_calls

NextClock ==
    \/ Start
    \/ RootRaises
    \/ \E r \in RootResponses : RootReturns(r)
    \/ ExitLoop
    \/ BreakMalformed
    \/ DirectResponse
    \/ BeginBatch
    \/ NullToolCalls
    \/ \E c \in ToolCalls : ArgumentsUnparsable(c)
    \/ \E c \in ToolCalls : ExecuteTool(c)
    \/ \E c \in ToolCalls : FinalAnswer(c)
    \/ \E c \in ToolCalls : RecursiveCall(c)
    \/ \E o \in RecursiveOutcomes : \E now \in ClockReadings : RecursiveReturnsAt(o, now)
    \/ ContinueLoop

SpecClock == Init /\ [][NextClock]_vars

\* What two runs are compared on after a step: the position, the counter,
\* the terminal outcome, the length of the log and the content of its last
\* entry.
PcValues == {"start", "await_root", "loop", "tools", "await_rec", "done"}

Outcomes ==
    {"RUNNING", "DONE_ERROR", "DONE_MAX_ITERATIONS", "DONE_DIRECT_RESPONSE",
     "DONE_FINAL_ANSWER"}

LogContents ==
    {"none", "tool_calls", "null", "message.content", "payload", "error", "final_answer"}
    \cup {RecursiveResultAt(o, now) : o \in RecursiveOutcomes, now \in ClockReadings}

LastContent ==
    IF conversation_log.tail = <<>> THEN "none"
    ELSE LastLogEntry(conversation_log).content

\* From the current state the step A has at most one result, as far as the
\* two runs are compared: whatever A can lead to, it cannot lead to
\* anything else.
Determined(A) ==
    /\ \A a \in PcValues :
          ENABLED (A /\ pc' = a) => ~ENABLED (A /\ pc' # a)
    /\ \A a \in 0..max_iterations :
          ENABLED (A /\ iteration' = a) => ~ENABLED (A /\ iteration' # a)
    /\ \A a \in Outcomes :
          ENABLED (A /\ Outcome' = a) => ~ENABLED (A /\ Outcome' # a)
    /\ \A a \in {2, LogLen(conversation_log), LogLen(conversation_log) + 1} :
          ENABLED (A /\ LogLen(conversation_log') = a)
              => ~ENABLED (A /\ LogLen(conversation_log') # a)
    /\ \A a \in LogContents :
          ENABLED (A /\ LastContent' = a) => ~ENABLED (A /\ LastContent' # a)

\* C14: with the history fixed, every step of the run is determined by the
\* state and by what the backend answers (the root response, the call of
\* its batch that the for loop reads, the outcome of a recursive call), so
\* that two runs fed the same responses go through the same positions and
\* end in the same outcome with the same iterations and the same log
\* entries, content included.
C14_Deterministic ==
    /\ Determined(Start \/ ExitLoop \/ BreakMalformed \/ DirectResponse
                  \/ BeginBatch \/ NullToolCalls \/ ContinueLoop)
    /\ Determined(RootRaises)
    /\ \A r \in RootResponses : Determined(RootReturns(r))
    /\ \A c \in ToolCalls :
          Determined(ArgumentsUnparsable(c) \/ ExecuteTool(c) \/ FinalAnswer(c)
                     \/ RecursiveCall(c))
    /\ \A o \in RecursiveOutcomes :
          Determined(\E now \in ClockReadings : RecursiveReturnsAt(o, now))

\* ---- C17
StartIndexError == "error: Start index exceeds total messages"

\* A get_context_chunk call whose arguments decode and whose start index is
\* at or beyond the end of the history.
ChunkPastEnd(c) ==
    /\ c.name = "get_context_chunk"
    /\ c.args # "unparsable"
    /\ StartIndex(c.args) >= total_messages

\* C17: when the for loop executes a get_context_chunk call whose start
\* index is at or beyond the end of the history (any start index on an
\* empty history), the tool returns the start-index error payload; it is
\* logged and collected as the result of that call, nothing reaches the
\* except branch, the run stays open and the for loop moves on; after the
\* last call of the batch the next root call can be issued.
C17_StartIndexPastEnd ==
    /\ [][(pc = "tools" /\ call_idx <= response.ncalls /\ ChunkPastEnd(tool_call')) =>
            /\ result' = StartIndexError
            /\ IsError(result')
            /\ exception' = "none"
            /\ returned' = NotReturned
            /\ pc' = "tools"
            /\ call_idx' = call_idx + 1
            /\ tool_results' =
                  Append(tool_results,
                         [tool_call_id |-> call_idx, role |-> "tool", content |-> "error"])
            /\ conversation_log' =
                  LogAppend(conversation_log, LogEntry("tool_result", call_idx, "error"))]_vars
    /\ []((pc = "tools" /\ call_idx > response.ncalls) => ENABLED ContinueLoop)

\* A start index past the end of a non-empty history was reported as an
\* error and the next root call was issued.
C17_Witness ==
    /\ pc = "await_root"
    /\ root_calls > 1
    /\ total_messages = 1
    /\ tool_call = [name |-> "get_context_chunk", args |-> "past_end"]
    /\ result = StartIndexError

\* ============================================ the context tools on their own
\* _get_context_chunk and _get_context_overview run against a stored
\* history, with the arguments a backend can send.  A string is the
\* sequence of its characters.

\* ------------------------------------------------------------------ bounds
\* Longest stored history.
MaxHistory == 3

\* ------------------------------------------------------------ the history
alpha == <<"a", "l", "p", "h", "a">>
Alpha == <<"A", "l", "p", "h", "a">>
alphabet == <<"a", "l", "p", "h", "a", "b", "e", "t">>
beta == <<"b", "e", "t", "a">>
space == <<" ">>

\* The messages get_full_history_for_search can return: role and content
\* (ids and timestamps are not read by what is modelled here).
Messages ==
    {[role |-> "user", content |-> alpha],
     [role |-> "assistant", content |-> Alpha \o space \o alphabet],
     [role |-> "user", content |-> alpha \o space \o alpha \o space \o alpha \o space \o alpha],
     [role |-> "assistant", content |-> beta],
     [role |-> "user", content |-> <<>>],
     [role |-> "assistant", content |-> alpha]}

Histories == UNION {[1..n -> Messages] : n \in 0..MaxHistory}

\* -------------------------------------------------------------- arguments
\* The decoded arguments are a dict: a function on the keys that are present.
ChunkKeys == {"start_index", "end_index", "max_tokens"}

IndexValues == -2..4

MaxTokensValues == {-1, 5, 19}

ChunkArguments ==
    {d \in UNION {[K -> IndexValues \cup MaxTokensValues] : K \in SUBSET ChunkKeys} :
        \A k \in DOMAIN d :
            IF k = "max_tokens" THEN d[k] \in MaxTokensValues ELSE d[k] \in IndexValues}

\* dict.get(key, default)
Get(d, key, default) == IF key \in DOMAIN d THEN d[key] ELSE default

\* ------------------------------------------------------ _get_context_chunk
\* sum(len(msg.get('content', '')) for msg in chunk)
RECURSIVE Tokens(_)
Tokens(chunk) ==
    IF chunk = <<>> THEN 0
    ELSE Len(chunk[1].content) + Tokens(Tail(chunk))

\* full_context[start:end] for 0 <= start < len(full_context): Python counts
\* a negative end from the end of the list.
Slice(full, start, end) ==
    LET stop == IF end < 0
                THEN (IF Len(full) + end < 0 THEN 0 ELSE Len(full) + end)
                ELSE (IF end > Len(full) THEN Len(full) ELSE end)
    IN  SubSeq(full, start + 1, stop)

\* Seeded fault: a message that does not fit is skipped and the loop goes
\* on with the messages after it.
RECURSIVE Truncate_SkipsOversized(_, _, _)
Truncate_SkipsOversized(chunk, running_tokens, max_tokens) ==
    IF chunk = <<>> THEN <<>>
    ELSE LET msg_tokens == Len(chunk[1].content)
         IN  IF running_tokens + msg_tokens <= max_tokens
             THEN <<chunk[1]>> \o Truncate_SkipsOversized(Tail(chunk), running_tokens + msg_tokens, max_tokens)
             ELSE Truncate_SkipsOversized(Tail(chunk), running_tokens, max_tokens)

\* The loop that fills temp_chunk: messages are taken from the front while
\* they fit, and the first one that does not fit ends the loop.
RECURSIVE Truncate(_, _, _)
Truncate(chunk, running_tokens, max_tokens) ==
    IF chunk = <<>> THEN <<>>
    ELSE LET msg_tokens == Len(chunk[1].content)
         IN  IF running_tokens + msg_tokens <= max_tokens
             THEN <<chunk[1]>> \o Truncate(Tail(chunk), running_tokens + msg_tokens, max_tokens)
             ELSE <<>>

\* Seeded fault: has_more is also set when the end is the end of the history.
HasMore_Inclusive(end_index, full) == end_index <= Len(full)

\* "has_more": end_index < len(full_context), end_index after "Validate
\* indices".
HasMore(end_index, full) == end_index < Len(full)

\* _get_context_chunk(conversation_id, args) on the history full.
get_context_chunk(full, a) ==
    LET start_arg == Get(a, "start_index", 0)
        end_arg == Get(a, "end_index", start_arg + 10)
        max_tokens == Get(a, "max_tokens", 2000)
        start_index == IF start_arg < 0 THEN 0 ELSE start_arg
        end_index == IF end_arg > Len(full) THEN Len(full) ELSE end_arg
    IN  IF start_index >= Len(full)
        THEN [error |-> "Start index exceeds total messages"]
        ELSE LET sliced == Slice(full, start_index, end_index)
                 chunk == IF Tokens(sliced) > max_tokens
                          THEN Truncate(sliced, 0, max_tokens)
                          ELSE sliced
             IN  [chunk |-> chunk,
                  start_index |-> start_index,
                  end_index |-> start_index + Len(chunk),
                  total_in_chunk |-> Len(chunk),
                  estimated_tokens |-> Tokens(chunk),
                  has_more |-> HasMore(end_index, full)]

\* --------------------------------------------------- _get_context_overview
\* [:10] of potential_topics.
TopicsLimit == 10

\* Seeded fault: str.lower() leaves every character as it is.
Lower_KeepsCase(ch) == ch

\* str.lower() on the characters of the histories.
Lower(ch) == IF ch = "A" THEN "a" ELSE ch

LowerString(str) == [i \in 1..Len(str) |-> Lower(str[i])]

\* ' '.join(strings)
RECURSIVE JoinWithSpace(_)
JoinWithSpace(strings) ==
    IF strings = <<>> THEN <<>>
    ELSE IF Len(strings) = 1 THEN strings[1]
    ELSE strings[1] \o space \o JoinWithSpace(Tail(strings))

\* str.split(): the maximal runs of characters that are not whitespace;
\* word is the run being read.
RECURSIVE SplitFrom(_, _)
SplitFrom(str, word) ==
    IF str = <<>> THEN (IF word = <<>> THEN <<>> ELSE <<word>>)
    ELSE IF str[1] = " "
         THEN (IF word = <<>> THEN <<>> ELSE <<word>>) \o SplitFrom(Tail(str), <<>>)
         ELSE SplitFrom(Tail(str), Append(word, str[1]))

Split(str) == SplitFrom(str, <<>>)

\* str.count(sub) for a non-empty sub: the occurrences of sub as a
\* substring, found from the left without overlap.
RECURSIVE Count(_, _)
Count(str, sub) ==
    IF Len(str) < Len(sub) THEN 0
    ELSE IF SubSeq(str, 1, Len(sub)) = sub
         THEN 1 + Count(SubSeq(str, Len(sub) + 1, Len(str)), sub)
         ELSE Count(Tail(str), sub)

\* seq[:n]
Take(seq, n) == SubSeq(seq, 1, IF Len(seq) < n THEN Len(seq) ELSE n)

\* all_text
AllText(full) == JoinWithSpace([i \in 1..Len(full) |-> LowerString(full[i].content)])

\* common_words
CommonWords(full) ==
    LET all_text == AllText(full)
        Kept(word) == Len(word) > 4 /\ Count(all_text, word) > 2
    IN  Take(SelectSeq(Split(all_text), Kept), TopicsLimit)

\* Seeded fault: a role is entered once and never counted up.
RoleCounts_NeverCountsUp(full) ==
    [r \in {full[i].role : i \in 1..Len(full)} |-> 1]

\* role_counts
RoleCounts(full) ==
    [r \in {full[i].role : i \in 1..Len(full)} |->
        Cardinality({i \in 1..Len(full) : full[i].role = r})]

\* _get_context_overview(conversation_id) on the history full.
get_context_overview(full) ==
    IF full = <<>>
    THEN [total_messages |-> 0,
          total_tokens |-> 0,
          conversation_span |-> "No messages",
          topics |-> <<>>,
          message_distribution |-> <<>>]
    ELSE [total_messages |-> Len(full),
          total_tokens |-> Tokens(full),
          conversation_span |-> "time span",
          potential_topics |-> CommonWords(full),
          message_distribution |-> RoleCounts(full),
          context_available |-> TRUE]

\* ------------------------------------------------------------- SpecTools
\* A stored history and a tool about to be called on it.
InitTools ==
    /\ pc = "tool_call"
    /\ response = NoResponse
    /\ iteration = 0
    /\ conversation_log = EmptyLog
    /\ current_messages = 0
    /\ tool_results = <<>>
    /\ call_idx = 0
    /\ tool_call = NoCall
    /\ result = NoToolResult
    /\ root_calls = 0
    /\ full_context \in Histories
    /\ total_messages = Len(full_context)
    /\ exception = "none"
    /\ returned = NotReturned
    /\ arguments = <<>>
    /\ tool_return = <<>>
    /\ request = NoRequest
    /\ recursive_calls = 0
    /\ StorageIdle

\* execute_context_tool("get_context_chunk", a, conversation_id)
CallGetContextChunk(a) ==
    /\ pc = "tool_call"
    /\ pc' = "tool_returned"
    /\ tool_call' = [name |-> "get_context_chunk", args |-> "decoded"]
    /\ arguments' = a
    /\ tool_return' = get_context_chunk(full_context, a)
    /\ UNCHANGED <<response, iteration, conversation_log, current_messages,
                   tool_results, call_idx, result, root_calls, total_messages,
                   exception, returned, full_context, call_vars,
                   storage_vars>>

\* execute_context_tool("get_context_overview", {}, conversation_id)
CallGetContextOverview ==
    /\ pc = "tool_call"
    /\ pc' = "tool_returned"
    /\ tool_call' = [name |-> "get_context_overview", args |-> "decoded"]
    /\ arguments' = <<>>
    /\ tool_return' = get_context_overview(full_context)
    /\ UNCHANGED <<response, iteration, conversation_log, current_messages,
                   tool_results, call_idx, result, root_calls, total_messages,
                   exception, returned, full_context, call_vars,
                   storage_vars>>

NextTools ==
    \/ \E a \in ChunkArguments : CallGetContextChunk(a)
    \/ CallGetContextOverview

SpecTools == InitTools /\ [][NextTools]_vars

\* ---- C15
\* get_context_chunk has returned a chunk, not an error.
ChunkReturned ==
    /\ pc = "tool_returned"
    /\ tool_call.name = "get_context_chunk"
    /\ "chunk" \in DOMAIN tool_return

\* The indices and the budget as asked for, defaults included.
RequestedStart == Get(arguments, "start_index", 0)

RequestedEnd == Get(arguments, "end_index", RequestedStart + 10)

RequestedMaxTokens == Get(arguments, "max_tokens", 2000)

\* i clamped into [0, total]
Clamp(i, total) == IF i < 0 THEN 0 ELSE IF i > total THEN total ELSE i

IsPrefix(p, q) == Len(p) <= Len(q) /\ p = SubSeq(q, 1, Len(p))

\* C15: a successful get_context_chunk returns a chunk no longer than
\* end_index - start_index, taken from the history between the two indices
\* clamped into [0, total_messages], whatever integers the indices are.
C15_ChunkWithinRequestedRange ==
    ChunkReturned =>
        /\ Len(tool_return.chunk) <= RequestedEnd - RequestedStart
        /\ IsPrefix(tool_return.chunk,
                    SubSeq(full_context,
                           Clamp(RequestedStart, Len(full_context)) + 1,
                           Clamp(RequestedEnd, Len(full_context))))

\* ---- C16
\* C16: whenever get_context_chunk returns a chunk, has_more is true if and
\* only if the end index asked for (start_index + 10 when none is given) is
\* smaller than the number of stored messages.
C16_HasMoreIffEndBeforeTotal ==
    ChunkReturned =>
        (tool_return.has_more <=> RequestedEnd < Len(full_context))

\* A chunk that ends before the end of the longest history, and has_more.
C16_Witness ==
    /\ ChunkReturned
    /\ Len(full_context) = MaxHistory
    /\ "end_index" \in DOMAIN arguments
    /\ arguments["end_index"] = MaxHistory - 1
    /\ tool_return.total_in_chunk = MaxHistory - 1
    /\ tool_return.has_more

\* ---- C18
\* The slice the tool takes once the indices are validated.
TakenSlice ==
    Slice(full_context,
          IF RequestedStart < 0 THEN 0 ELSE RequestedStart,
          IF RequestedEnd > Len(full_context) THEN Len(full_context) ELSE RequestedEnd)

\* chunk is the longest prefix of slice whose content lengths add up to at
\* most max_tokens.
LongestPrefixWithin(chunk, slice, max_tokens) ==
    /\ IsPrefix(chunk, slice)
    /\ Tokens(chunk) <= max_tokens
    /\ Len(chunk) < Len(slice) => Tokens(SubSeq(slice, 1, Len(chunk) + 1)) > max_tokens

\* C18 as stated: the chunk is the longest prefix of the slice within
\* max_tokens, and estimated_tokens <= max_tokens.
C18_Original ==
    ChunkReturned =>
        /\ LongestPrefixWithin(tool_return.chunk, TakenSlice, RequestedMaxTokens)
        /\ tool_return.estimated_tokens <= RequestedMaxTokens

\* C18 amended: the chunk is a prefix of the slice in history order, and
\* estimated_tokens is the sum of its content lengths; for max_tokens >= 0
\* it is the longest prefix whose cumulative content length does not exceed
\* max_tokens, so estimated_tokens <= max_tokens; for a negative max_tokens
\* no prefix is within the budget and the chunk is empty, with
\* estimated_tokens = 0 above max_tokens.
C18_LongestPrefixWithinBudget ==
    ChunkReturned =>
        /\ IsPrefix(tool_return.chunk, TakenSlice)
        /\ tool_return.total_in_chunk = Len(tool_return.chunk)
        /\ tool_return.estimated_tokens = Tokens(tool_return.chunk)
        /\ RequestedMaxTokens >= 0 =>
              /\ LongestPrefixWithin(tool_return.chunk, TakenSlice, RequestedMaxTokens)
              /\ tool_return.estimated_tokens <= RequestedMaxTokens
        /\ RequestedMaxTokens < 0 =>
              /\ tool_return.chunk = <<>>
              /\ tool_return.estimated_tokens = 0

\* The budget cut the slice in the middle: a message that fits comes after
\* the first one that does not.
C18_Witness ==
    /\ ChunkReturned
    /\ RequestedMaxTokens = 5
    /\ Len(TakenSlice) = MaxHistory
    /\ Len(tool_return.chunk) = 1
    /\ Len(TakenSlice[2].content) > 5
    /\ Len(TakenSlice[3].content) <= 0

\* ---- C19
OverviewReturned ==
    /\ pc = "tool_returned"
    /\ tool_call.name = "get_context_overview"

Roles == {"user", "assistant", "system", "tool", "unknown"}

MessagesWithRole(r) == Cardinality({i \in 1..Len(full_context) : full_context[i].role = r})

\* C19: on every history, the empty one included, get_context_overview
\* returns no error, total_messages is the number of stored messages, and
\* message_distribution has exactly the roles that occur, each with the
\* number of messages of that role, so that the counts add up to
\* total_messages.
C19_OverviewCounts ==
    OverviewReturned =>
        /\ "error" \notin DOMAIN tool_return
        /\ tool_return.total_messages = Len(full_context)
        /\ DOMAIN tool_return.message_distribution = {r \in Roles : MessagesWithRole(r) > 0}
        /\ \A r \in DOMAIN tool_return.message_distribution :
              tool_return.message_distribution[r] = MessagesWithRole(r)
        /\ Get(tool_return.message_distribution, "user", 0)
             + Get(tool_return.message_distribution, "assistant", 0)
             = tool_return.total_messages
        /\ full_context = <<>> =>
              (tool_return.total_messages = 0 /\ tool_return.message_distribution = <<>>)

\* The overview of a history of two user messages and one assistant message.
C19_Witness ==
    /\ OverviewReturned
    /\ Len(full_context) = 3
    /\ tool_return.total_messages = 3
    /\ tool_return.message_distribution =
          [r \in {"user", "assistant"} |-> IF r = "user" THEN 2 ELSE 1]

\* ---- C20
\* The times word occurs as a word in the lowercased history.
OccurrencesAsWord(word) ==
    LET words == Split(AllText(full_context))
    IN  Cardinality({i \in 1..Len(words) : words[i] = word})

\* C20: potential_topics holds at most 10 entries, pairwise distinct, each a
\* word of more than 4 characters that occurs as a word more than twice
\* across the whole history.
C20_TopicsDistinctFrequentWords ==
    (OverviewReturned /\ "potential_topics" \in DOMAIN tool_return) =>
        LET topics == tool_return.potential_topics
        IN  /\ Len(topics) <= TopicsLimit
            /\ \A i, j \in 1..Len(topics) : i # j => topics[i] # topics[j]
            /\ \A i \in 1..Len(topics) :
                  /\ Len(topics[i]) > 4
                  /\ OccurrencesAsWord(topics[i]) > 2

\* ================================================== search.py on its own
\* FuzzySearch keeps no state: each of its functions is checked under a
\* specification that draws the inputs from bounded sets and applies it.

\* The variables of process_user_query where no run is under way.
Idle ==
    /\ response = NoResponse
    /\ iteration = 0
    /\ conversation_log = EmptyLog
    /\ current_messages = 0
    /\ tool_results = <<>>
    /\ call_idx = 0
    /\ result = NoToolResult
    /\ root_calls = 0
    /\ exception = "none"
    /\ returned = NotReturned
    /\ request = NoRequest
    /\ recursive_calls = 0
    /\ StorageIdle

run_vars == <<response, iteration, conversation_log, current_messages,
              tool_results, call_idx, result, root_calls, exception, returned,
              call_vars, storage_vars>>

Max(a, b) == IF a > b THEN a ELSE b

Min(a, b) == IF a < b THEN a ELSE b

\* ---------------------------------------------------------- expand_context
\* Longest history expand_context is applied to.
MaxExpandHistory == 6

\* Stored messages as expand_context reads them: the id and what tells two
\* messages apart. The standard and the RLM track number their messages
\* independently, so one id may occur twice in the merged history.
ExpandMessages ==
    { [id |-> "m1", role |-> "user", content |-> alpha],
      [id |-> "m2", role |-> "assistant", content |-> beta],
      [id |-> "m1", role |-> "assistant", content |-> beta] }

ExpandHistories == UNION {[1..n -> ExpandMessages] : n \in 0..MaxExpandHistory}

MessageIds == {"m1", "m2", "m9"}

Directions == {"before", "after", "both", "sideways"}

PairsValues == -1..2

ExpandArguments ==
    [message_id : MessageIds, direction : Directions, pairs : PairsValues]

\* The linear scan of lines 155-159: the 0-based index of the first message
\* with the id, -1 when there is none.
TargetIndex(messages, message_id) ==
    LET hits == {i \in 1..Len(messages) : messages[i].id = message_id}
    IN  IF hits = {} THEN -1
        ELSE (CHOOSE i \in hits : \A j \in hits : i <= j) - 1

\* before_messages, empty unless the direction asks for it.
BeforeMessages(messages, target_idx, direction, pairs) ==
    IF direction \in {"before", "both"}
    THEN Slice(messages, Max(0, target_idx - pairs * 2), target_idx)
    ELSE <<>>

\* Seeded fault: only the direction "after" adds the messages after the
\* target.
AfterMessages_OnlyAfter(messages, target_idx, direction, pairs) ==
    IF direction = "after"
    THEN Slice(messages, target_idx + 1,
               Min(Len(messages), target_idx + 1 + pairs * 2))
    ELSE <<>>

\* after_messages, empty unless the direction asks for it.
AfterMessages(messages, target_idx, direction, pairs) ==
    IF direction \in {"after", "both"}
    THEN Slice(messages, target_idx + 1,
               Min(Len(messages), target_idx + 1 + pairs * 2))
    ELSE <<>>

\* Seeded fault: a scan that finds nothing leaves the index at the first
\* message.
ExpandTarget_DefaultsToFirst(messages, message_id) ==
    IF TargetIndex(messages, message_id) = -1 /\ messages # <<>> THEN 0
    ELSE TargetIndex(messages, message_id)

\* target_idx as the rest of expand_context reads it.
ExpandTarget(messages, message_id) == TargetIndex(messages, message_id)

\* FuzzySearch.expand_context
expand_context(messages, message_id, direction, pairs) ==
    LET target_idx == ExpandTarget(messages, message_id)
    IN  IF target_idx = -1 THEN <<>>
        ELSE BeforeMessages(messages, target_idx, direction, pairs)
             \o <<messages[target_idx + 1]>>
             \o AfterMessages(messages, target_idx, direction, pairs)

\* ------------------------------------------------------------ SpecExpand
InitExpand ==
    /\ Idle
    /\ pc = "tool_call"
    /\ tool_call = NoCall
    /\ full_context \in ExpandHistories
    /\ total_messages = Len(full_context)
    /\ arguments = <<>>
    /\ tool_return = <<>>

\* search.expand_context(full_context, a.message_id, a.direction, a.pairs)
CallExpandContext(a) ==
    /\ pc = "tool_call"
    /\ pc' = "tool_returned"
    /\ tool_call' = [name |-> "expand_context", args |-> "decoded"]
    /\ arguments' = a
    /\ tool_return' = expand_context(full_context, a.message_id, a.direction, a.pairs)
    /\ UNCHANGED <<run_vars, total_messages, full_context>>

NextExpand == \E a \in ExpandArguments : CallExpandContext(a)

SpecExpand == InitExpand /\ [][NextExpand]_vars

\* expand_context has returned.
ExpandReturned == pc = "tool_returned" /\ tool_call.name = "expand_context"

\* The id asked for occurs in the list.
IdPresent == \E i \in 1..Len(full_context) : full_context[i].id = arguments.message_id

\* ---- C22
\* What the same call returns for another direction.
ExpandedTowards(direction) ==
    expand_context(full_context, arguments.message_id, direction, arguments.pairs)

\* seq is a run of consecutive messages of the history, in history order.
IsRunOfHistory(seq) ==
    \E lo \in 1..(Len(full_context) + 1) :
        /\ lo + Len(seq) - 1 <= Len(full_context)
        /\ seq = SubSeq(full_context, lo, lo + Len(seq) - 1)

\* C22: for an id that occurs in the list, the result for the direction
\* "both" is the "before" result followed by the "after" result with the
\* pivot, which ends the one and starts the other, taken once; it is a run
\* of the history in its original order.
C22_BothIsBeforeThenAfter ==
    (ExpandReturned /\ IdPresent /\ arguments.direction = "both") =>
        /\ tool_return = ExpandedTowards("before") \o Tail(ExpandedTowards("after"))
        /\ IsRunOfHistory(tool_return)

\* A pivot in the middle of a history with messages on both sides, some of
\* them outside the window.
C22_Witness ==
    /\ ExpandReturned
    /\ arguments.direction = "both"
    /\ arguments.pairs = 1
    /\ Len(full_context) = 6
    /\ TargetIndex(full_context, arguments.message_id) = 3
    /\ Len(tool_return) = 5

\* ---- C23
\* C23: an id that occurs in no message of the list gives the empty list,
\* whatever the direction and the pairs value.
C23_UnknownIdGivesEmptyList ==
    (ExpandReturned /\ ~IdPresent) => tool_return = <<>>

\* An unknown id looked up in a history that has messages.
C23_Witness ==
    /\ ExpandReturned
    /\ ~IdPresent
    /\ Len(full_context) = 3
    /\ arguments.direction = "both"
    /\ arguments.pairs = 2
    /\ tool_return = <<>>

\* ------------------------------------------------------- fuzzy_match_score
\* Longest pattern and longest text fuzzy_match_score is applied to.
MaxPatternLen == 3

MaxTextLen == 4

\* The characters of patterns and texts: a letter in both cases, a second
\* letter, and a character that starts a word.
FuzzyChars == {"a", "A", "b", " "}

Strings(chars, n) == UNION {[1..k -> chars] : k \in 0..n}

FuzzyArguments ==
    [pattern : Strings(FuzzyChars, MaxPatternLen), text : Strings(FuzzyChars, MaxTextLen)]

\* ' \t\n_-'
WordBoundaryChars == {" ", "\t", "\n", "_", "-"}

\* A score is a float in the code; here it is the exact fraction num/den
\* with den > 0.
Fraction(n, d) == [num |-> n, den |-> d]

\* 0.0
Zero == Fraction(0, 1)

Equal(x, y) == x.num * y.den = y.num * x.den

Less(x, y) == x.num * y.den < y.num * x.den

\* min(final_score, 1.0)
AtMostOne(x) == IF x.num > x.den THEN Fraction(x.den, x.den) ELSE x

\* The while loop of lines 19-23 from the 0-based positions pattern_index
\* and text_index on: a pattern character is matched with the first text
\* character equal to it.
RECURSIVE MatchWalk(_, _, _, _, _)
MatchWalk(pattern, text, pattern_index, text_index, matches) ==
    IF pattern_index < Len(pattern) /\ text_index < Len(text)
    THEN IF pattern[pattern_index + 1] = text[text_index + 1]
         THEN MatchWalk(pattern, text, pattern_index + 1, text_index + 1,
                        Append(matches, text_index))
         ELSE MatchWalk(pattern, text, pattern_index, text_index + 1, matches)
    ELSE [pattern_index |-> pattern_index, matches |-> matches]

\* Seeded fault: the first match counts as contiguous too.
ContiguityBonus_CountsFirst(matches) ==
    Cardinality({i \in 1..Len(matches) : i = 1 \/ matches[i] = matches[i - 1] + 1})

\* contiguity_bonus
ContiguityBonus(matches) ==
    Cardinality({i \in 2..Len(matches) : matches[i] = matches[i - 1] + 1})

\* word_boundary_bonus; matches holds 0-based positions of text.
WordBoundaryBonus(matches, text) ==
    Cardinality({i \in 1..Len(matches) :
                    matches[i] = 0 \/ text[matches[i]] \in WordBoundaryChars})

\* Seeded fault: no bonus for an early first match.
FinalScore_NoEarlyBonus(pattern, text, matches) ==
    LET P == Len(pattern)
        T == Len(text)
    IN  Fraction(T * (5 * Len(matches) + 3 * ContiguityBonus(matches)
                        + WordBoundaryBonus(matches, text)),
                 10 * P * T)

\* final_score of lines 46-55 over the common denominator
\* 10 * len(pattern) * len(text); early_match_bonus is
\* max(0, 1 - matches[0] / len(text)) = (len(text) - matches[0]) / len(text).
FinalScore(pattern, text, matches) ==
    LET P == Len(pattern)
        T == Len(text)
        early == Max(0, T - matches[1])
    IN  Fraction(T * (5 * Len(matches) + 3 * ContiguityBonus(matches)
                        + WordBoundaryBonus(matches, text)) + P * early,
                 10 * P * T)

\* FuzzySearch.fuzzy_match_score
fuzzy_match_score(pattern_arg, text_arg) ==
    LET pattern == LowerString(pattern_arg)
        text == LowerString(text_arg)
        walk == MatchWalk(pattern, text, 0, 0, <<>>)
    IN  IF walk.pattern_index < Len(pattern) THEN Zero
        ELSE IF walk.matches = <<>> THEN Zero
        ELSE AtMostOne(FinalScore(pattern, text, walk.matches))

\* ------------------------------------------------------------- SpecFuzzy
InitFuzzy ==
    /\ Idle
    /\ pc = "tool_call"
    /\ tool_call = NoCall
    /\ full_context = <<>>
    /\ total_messages = 0
    /\ arguments \in FuzzyArguments
    /\ tool_return = <<>>

\* search.fuzzy_match_score(arguments.pattern, arguments.text)
CallFuzzyMatchScore ==
    /\ pc = "tool_call"
    /\ pc' = "tool_returned"
    /\ tool_call' = [name |-> "fuzzy_match_score", args |-> "decoded"]
    /\ tool_return' = fuzzy_match_score(arguments.pattern, arguments.text)
    /\ UNCHANGED <<run_vars, total_messages, full_context, arguments>>

NextFuzzy == CallFuzzyMatchScore

SpecFuzzy == InitFuzzy /\ [][NextFuzzy]_vars

\* fuzzy_match_score has returned.
ScoreReturned == pc = "tool_returned" /\ tool_call.name = "fuzzy_match_score"

\* ---- C24
\* The other case of a letter.
SwapCase(ch) == IF ch = "a" THEN "A" ELSE IF ch = "A" THEN "a" ELSE ch

\* str with the case of its i-th character changed.
SwapCaseAt(str, i) == [j \in 1..Len(str) |-> IF j = i THEN SwapCase(str[j]) ELSE str[j]]

\* str with every letter in lower case.
LowerCased(str) == [j \in 1..Len(str) |-> IF str[j] = "A" THEN "a" ELSE str[j]]

\* p can be had from t by deleting characters.
RECURSIVE IsSubsequence(_, _)
IsSubsequence(p, t) ==
    \/ p = <<>>
    \/ /\ t # <<>>
       /\ \/ p[1] = t[1] /\ IsSubsequence(Tail(p), Tail(t))
          \/ IsSubsequence(p, Tail(t))

\* C24: the score is 0 whenever the lower-cased pattern is not an ordered
\* subsequence of the lower-cased text, and changing the case of any
\* character of the pattern or of the text leaves the score as it is.
C24_ZeroUnlessSubsequenceAndCaseBlind ==
    ScoreReturned =>
        /\ ~IsSubsequence(LowerCased(arguments.pattern), LowerCased(arguments.text))
              => Equal(tool_return, Zero)
        /\ \A i \in 1..Len(arguments.pattern) :
              Equal(fuzzy_match_score(SwapCaseAt(arguments.pattern, i), arguments.text),
                    tool_return)
        /\ \A i \in 1..Len(arguments.text) :
              Equal(fuzzy_match_score(arguments.pattern, SwapCaseAt(arguments.text, i)),
                    tool_return)

\* A pattern and a text that differ in case only where they match, scored
\* above 0, and with it the same characters in the wrong order, scored 0.
C24_Witness ==
    /\ ScoreReturned
    /\ arguments.pattern = <<"A", "b">>
    /\ arguments.text = <<"a", " ", "b", "A">>
    /\ Less(Zero, tool_return)
    /\ Equal(fuzzy_match_score(<<"b", "a", "b">>, arguments.text), Zero)

\* ---- C25
\* The pattern is matched by the first len(pattern) characters of the text.
MatchesAtStart ==
    /\ Len(arguments.pattern) <= Len(arguments.text)
    /\ LowerCased(arguments.pattern) =
          SubSeq(LowerCased(arguments.text), 1, Len(arguments.pattern))

\* 1 - 0.3 / len(pattern): coverage, word boundaries and earliness at their
\* maximum and len(pattern) - 1 contiguous pairs.
TopScore(pattern) == Fraction(10 * Len(pattern) - 3, 10 * Len(pattern))

\* C25: the score lies in [0, 1]; it is 1.0 only for a pattern matched
\* contiguously from index 0 of the text. (No score is above
\* 1 - 0.3 / len(pattern), and the ones that reach it are such matches.)
C25_ScoreInUnitInterval ==
    ScoreReturned =>
        /\ tool_return.den > 0
        /\ 0 <= tool_return.num
        /\ tool_return.num <= tool_return.den
        /\ tool_return.num = tool_return.den => MatchesAtStart
        /\ tool_return.num > 0 =>
              /\ ~Less(TopScore(arguments.pattern), tool_return)
              /\ Equal(tool_return, TopScore(arguments.pattern)) => MatchesAtStart

\* A pattern found contiguously at index 0 with every character at a word
\* boundary: the highest score a pattern of two characters can have.
C25_Witness ==
    /\ ScoreReturned
    /\ arguments.pattern = <<" ", " ">>
    /\ arguments.text = <<" ", " ", "a">>
    /\ MatchesAtStart
    /\ Equal(tool_return, Fraction(85, 100))

\* --------------------------------------------------------- extract_snippet
\* Longest content of the exhaustive part of the contents.
MaxContentLen == 5

\* The length above which a snippet is cut (line 90).
SnippetLimit == 300

\* [.!?]
SentenceEnd == {".", "!", "?"}

\* The characters str.strip() removes.
Whitespace == {" ", "\t", "\n"}

SnippetChars == {"a", " ", ".", "?"}

\* n times the letter a.
Filler(n) == [i \in 1..n |-> "a"]

\* Contents around the limit: one long sentence, alone or followed by a
\* short one.
LongContents ==
    {Filler(n) \o rest : n \in (SnippetLimit - 1)..(SnippetLimit + 1),
                         rest \in {<<>>, <<".">>, <<".", " ", "a">>}}

Contents == Strings(SnippetChars, MaxContentLen) \cup LongContents

MatchStarts == -1..(MaxContentLen + 1)

ContextSentences == 0..2

SnippetArguments ==
    [content : Contents, match_start : MatchStarts, context_sentences : ContextSentences]

\* The 1-based positions where re.split(r'([.!?]+)', content) cuts: the last
\* character of every run of sentence-ending characters.
SentenceCuts(content) ==
    {i \in 1..Len(content) :
        /\ content[i] \in SentenceEnd
        /\ i = Len(content) \/ content[i + 1] \notin SentenceEnd}

\* The k-th cut from the left, 0 for k = 0.
Cut(content, k) ==
    IF k = 0 THEN 0
    ELSE CHOOSE c \in SentenceCuts(content) :
            Cardinality({x \in SentenceCuts(content) : x <= c}) = k

\* full_sentences of lines 62-70: each piece of text joined with the run of
\* sentence-ending characters after it, then the text after the last run,
\* which is a piece of its own even when it is empty.
FullSentences(content) ==
    LET n == Cardinality(SentenceCuts(content))
    IN  [k \in 1..(n + 1) |->
            IF k <= n
            THEN SubSeq(content, Cut(content, k - 1) + 1, Cut(content, k))
            ELSE SubSeq(content, Cut(content, n) + 1, Len(content))]

\* The loop of lines 73-81 from sentence i (1-based) on: the 0-based index
\* of the first sentence with char_count <= match_start <= sentence_end,
\* 0 when there is none.
RECURSIVE TargetFrom(_, _, _, _)
TargetFrom(full_sentences, match_start, i, char_count) ==
    IF i > Len(full_sentences) THEN 0
    ELSE LET sentence_end == char_count + Len(full_sentences[i])
         IN  IF char_count <= match_start /\ match_start <= sentence_end
             THEN i - 1
             ELSE TargetFrom(full_sentences, match_start, i + 1, sentence_end)

TargetSentenceIdx(full_sentences, match_start) ==
    TargetFrom(full_sentences, match_start, 1, 0)

\* ''.join(strings)
RECURSIVE Join(_)
Join(strings) ==
    IF strings = <<>> THEN <<>> ELSE strings[1] \o Join(Tail(strings))

\* str.strip()
Strip(str) ==
    LET kept == {i \in 1..Len(str) : str[i] \notin Whitespace}
    IN  IF kept = {} THEN <<>>
        ELSE SubSeq(str, CHOOSE i \in kept : \A j \in kept : i <= j,
                         CHOOSE i \in kept : \A j \in kept : j <= i)

\* Lines 90-91: snippet[:300] + "..."
Ellipsis(snippet) ==
    IF Len(snippet) > SnippetLimit
    THEN SubSeq(snippet, 1, SnippetLimit) \o <<".", ".", ".">>
    ELSE snippet

\* FuzzySearch.extract_snippet; match_end is not read.
extract_snippet(content, match_start, context_sentences) ==
    LET full_sentences == FullSentences(content)
        target_sentence_idx == TargetSentenceIdx(full_sentences, match_start)
        start_idx == Max(0, target_sentence_idx - context_sentences)
        end_idx == Min(Len(full_sentences), target_sentence_idx + context_sentences + 1)
    IN  Ellipsis(Strip(Join(SubSeq(full_sentences, start_idx + 1, end_idx))))

\* ----------------------------------------------------------- SpecSnippet
InitSnippet ==
    /\ Idle
    /\ pc = "tool_call"
    /\ tool_call = NoCall
    /\ full_context = <<>>
    /\ total_messages = 0
    /\ arguments \in SnippetArguments
    /\ tool_return = <<>>

\* search.extract_snippet(arguments.content, arguments.match_start, match_end,
\*                        arguments.context_sentences)
CallExtractSnippet ==
    /\ pc = "tool_call"
    /\ pc' = "tool_returned"
    /\ tool_call' = [name |-> "extract_snippet", args |-> "decoded"]
    /\ tool_return' = extract_snippet(arguments.content, arguments.match_start,
                                      arguments.context_sentences)
    /\ UNCHANGED <<run_vars, total_messages, full_context, arguments>>

NextSnippet == CallExtractSnippet

SpecSnippet == InitSnippet /\ [][NextSnippet]_vars

\* extract_snippet has returned.
SnippetReturned == pc = "tool_returned" /\ tool_call.name = "extract_snippet"

\* ---- C26
\* C26: a snippet is at most 300 characters long, whatever the content and
\* the match position.
C26_SnippetAtMostLimit ==
    SnippetReturned => Len(tool_return) <= SnippetLimit

\* ---- C27
\* The 1-based positions of the content where a sentence ends: the last
\* character of every run of sentence-ending characters, and the last
\* character of the content.
SentenceEnds(content) ==
    {i \in 1..Len(content) :
        \/ i = Len(content)
        \/ content[i] \in SentenceEnd /\ content[i + 1] \notin SentenceEnd}

\* The content from the sentence that holds the 1-based position q back
\* and forth by c sentences, clipped to the content.
SentencesAround(content, q, c) ==
    LET before == {e \in SentenceEnds(content) \cup {0} : e < q}
        after == {e \in SentenceEnds(content) : e >= q}
        lo == IF Cardinality(before) <= c THEN 0
              ELSE CHOOSE e \in before : Cardinality({x \in before : x >= e}) = c + 1
        hi == IF Cardinality(after) <= c THEN Len(content)
              ELSE CHOOSE e \in after : Cardinality({x \in after : x <= e}) = c + 1
    IN  SubSeq(content, lo + 1, hi)

\* C27: for a match start inside the content, the snippet is made of the
\* sentence that holds the character at the match start and of
\* context_sentences sentences on each side of it, clipped to the content
\* (then trimmed and cut as every snippet is).
C27_TargetHoldsMatchStart ==
    (/\ SnippetReturned
     /\ 0 <= arguments.match_start
     /\ arguments.match_start < Len(arguments.content)) =>
        tool_return = Ellipsis(Strip(SentencesAround(arguments.content,
                                                     arguments.match_start + 1,
                                                     arguments.context_sentences)))

\* ---------------------------------------------------- find_match_positions
\* The characters a window holds beyond window_size (line 105).
WindowBuffer == 10

\* The smallest window (line 102).
MinWindow == 3

\* The k-th smallest element of a set of numbers.
Nth(S, k) == CHOOSE x \in S : Cardinality({y \in S : y <= x}) = k

\* text_lower[i:i + window_size + 10]
Window(text, i, window_size) ==
    SubSeq(text, i + 1, Min(Len(text), i + window_size + WindowBuffer))

\* Lines 107-120 for the window at i: the window scores above 0.5 and the
\* walk over it matches the whole pattern.
WindowMatches(pattern, text, i, window_size) ==
    LET window == Window(text, i, window_size)
    IN  /\ Less(Fraction(1, 2), fuzzy_match_score(pattern, window))
        /\ MatchWalk(pattern, window, 0, 0, <<>>).pattern_index = Len(pattern)

\* (match_positions[0], match_positions[-1] + 1) for the window at i.
MatchSpan(pattern, text, i, window_size) ==
    LET match_positions == MatchWalk(pattern, Window(text, i, window_size), 0, 0, <<>>).matches
    IN  <<i + match_positions[1], i + match_positions[Len(match_positions)] + 1>>

\* FuzzySearch.find_match_positions: one span for every window start, from
\* the left, whose window matches.
find_match_positions(pattern_arg, text_arg) ==
    LET pattern == LowerString(pattern_arg)
        text_lower == LowerString(text_arg)
        window_size == Max(Len(pattern), MinWindow)
        starts == {i \in 0..(Len(text_lower) - window_size) :
                      WindowMatches(pattern, text_lower, i, window_size)}
    IN  [k \in 1..Cardinality(starts) |->
            MatchSpan(pattern, text_lower, Nth(starts, k), window_size)]

\* --------------------------------------------------------- search_messages
\* results.sort(key=score, reverse=True): the sort is stable, results of
\* equal score keep their order. sorted holds the results placed so far.
RECURSIVE SortByScore(_, _)
SortByScore(results, sorted) ==
    IF results = <<>> THEN sorted
    ELSE LET r == Head(results)
             ahead == {i \in 1..Len(sorted) : ~Less(sorted[i].score, r.score)}
             k == Cardinality(ahead)
         IN  SortByScore(Tail(results),
                         SubSeq(sorted, 1, k) \o <<r>> \o SubSeq(sorted, k + 1, Len(sorted)))

\* The result of one message, none when the query is not found in it.
MessageResults(message, query) ==
    LET matches == find_match_positions(query, message.content)
    IN  IF matches = <<>> THEN <<>>
        ELSE LET best_match == matches[1]
             IN  << [message_id |-> message.id,
                     snippet |-> extract_snippet(message.content, best_match[1], 1),
                     timestamp |-> message.timestamp,
                     role |-> message.role,
                     score |-> fuzzy_match_score(query, message.content),
                     match_positions |-> best_match] >>

\* The loop of lines 128-145.
RECURSIVE CollectResults(_, _)
CollectResults(messages, query) ==
    IF messages = <<>> THEN <<>>
    ELSE MessageResults(Head(messages), query) \o CollectResults(Tail(messages), query)

\* Seeded fault: the limit is not applied.
Limited_Ignored(results, limit) == results

\* results[:limit]
Limited(results, limit) == Slice(results, 0, limit)

\* FuzzySearch.search_messages
search_messages(messages, query, limit) ==
    Limited(SortByScore(CollectResults(messages, query), <<>>), limit)

\* --------------------------------------------------------- _search_context
\* Longest history search_context is applied to.
MaxSearchHistory == 10

\* pairs of the expand_context call (line 334).
SearchPairs == 2

\* limit when the arguments name none (line 320).
DefaultLimit == 5

\* Ids of stored messages, one for each place in a history.
IdNames == <<"m1", "m2", "m3", "m4", "m5", "m6", "m7", "m8", "m9", "m10", "m11", "m12">>

SearchContents == {alpha, beta}

\* Histories whose messages have ids of their own and are in the order of
\* their timestamps.
SearchHistories ==
    UNION { { [i \in 1..n |-> [id |-> IdNames[i],
                               role |-> IF i % 2 = 1 THEN "user" ELSE "assistant",
                               content |-> c[i],
                               timestamp |-> i]] : c \in [1..n -> SearchContents] }
            : n \in 0..MaxSearchHistory }

Queries == {<<>>, <<"a">>, <<"a", "l">>, <<"b", "e", "t">>}

LimitValues == -1..2

\* The arguments object of a search_context call: each key is there or not.
SearchArguments ==
    {[k \in {} |-> 0]}
    \cup {[k \in {"query"} |-> q] : q \in Queries}
    \cup {[k \in {"limit"} |-> l] : l \in LimitValues}
    \cup [query : Queries, limit : LimitValues]

\* The loop of lines 328-339; every id of the histories is a non-empty
\* string, so no result is passed over.
ExpandedResults(full, search_results) ==
    [k \in 1..Len(search_results) |->
        [search_result |-> search_results[k],
         expanded_context |-> expand_context(full, search_results[k].message_id,
                                             "both", SearchPairs)]]

\* TrueRLMAgent._search_context
search_context(full, a) ==
    LET query == Get(a, "query", <<>>)
        limit == Get(a, "limit", DefaultLimit)
        expanded_results == ExpandedResults(full, search_messages(full, query, limit))
    IN  IF full = <<>> THEN [results |-> <<>>, total_messages |-> 0]
        ELSE [results |-> expanded_results,
              query |-> query,
              total_found |-> Len(expanded_results)]

\* ------------------------------------------------------------ SpecSearch
InitSearch ==
    /\ Idle
    /\ pc = "tool_call"
    /\ tool_call = NoCall
    /\ full_context \in SearchHistories
    /\ total_messages = Len(full_context)
    /\ arguments = <<>>
    /\ tool_return = <<>>

\* execute_context_tool("search_context", a, conversation_id)
CallSearchContext(a) ==
    /\ pc = "tool_call"
    /\ pc' = "tool_returned"
    /\ tool_call' = [name |-> "search_context", args |-> "decoded"]
    /\ arguments' = a
    /\ tool_return' = search_context(full_context, a)
    /\ UNCHANGED <<run_vars, total_messages, full_context>>

NextSearch == \E a \in SearchArguments : CallSearchContext(a)

SpecSearch == InitSearch /\ [][NextSearch]_vars

\* search_context has returned.
SearchReturned == pc = "tool_returned" /\ tool_call.name = "search_context"

\* ---- C21
\* The 1-based place of the message with the id in the history.
PlaceOf(message_id) == CHOOSE i \in 1..Len(full_context) : full_context[i].id = message_id

\* C21: for a limit >= 0 (the default included) search_context returns at
\* most limit results, and each comes with the hit, the messages up to 4
\* places before it and the messages up to 4 places after it, clipped at
\* the ends of the history: at most 9 messages.
C21_AtMostLimitResultsOfNineMessages ==
    (SearchReturned /\ Get(arguments, "limit", DefaultLimit) >= 0) =>
        /\ Len(tool_return.results) <= Get(arguments, "limit", DefaultLimit)
        /\ \A k \in 1..Len(tool_return.results) :
              LET r == tool_return.results[k]
                  hit == PlaceOf(r.search_result.message_id)
              IN  /\ Len(r.expanded_context) <= 9
                  /\ r.expanded_context =
                        SubSeq(full_context, Max(1, hit - 4), Min(Len(full_context), hit + 4))

\* Ten messages that all match, limit 2: two results, one of them with four
\* messages on each side, the other clipped at the start of the history.
C21_Witness ==
    /\ SearchReturned
    /\ Len(full_context) = 10
    /\ "limit" \in DOMAIN arguments /\ arguments.limit = 2
    /\ Len(CollectResults(full_context, Get(arguments, "query", <<>>))) > 2
    /\ Len(tool_return.results) = 2
    /\ \E k \in 1..2 : Len(tool_return.results[k].expanded_context) = 9
    /\ \E k \in 1..2 : Len(tool_return.results[k].expanded_context) < 9

\* ======================================= recursive calls and the history
\* ---- C28
\* The tool call read last is recursive_lm_call with arguments of kind k.
LastCallRecursive(k) == tool_call = [name |-> "recursive_lm_call", args |-> k]

\* C28: recursive_lm_call with an empty or missing context_subset gives the
\* error payload without any chat call; with a non-empty subset it issues
\* one chat call, and its result comes from that call.
C28_RecursiveCallsBackendOnce ==
    /\ LastCallRecursive("missing") =>
          /\ recursive_calls = 0
          /\ pc # "await_rec"
          /\ request.by # "recursive_lm_call"
          /\ result = "error: No context subset provided for recursive LM call"
    /\ LastCallRecursive("valid") =>
          /\ recursive_calls = 1
          /\ \/ pc = "await_rec" /\ request.by = "recursive_lm_call"
             \/ pc # "await_rec"
                /\ request.by # "recursive_lm_call"
                /\ result \in {"recursive result", "result: Recursive LM call failed",
                               "error: Failed recursive LM call"}

\* A batch whose first call had a subset and got its answer from the
\* backend, and whose second call had none.
C28_Witness ==
    /\ pc = "tools"
    /\ call_idx = 3
    /\ tool_results[1].content = "payload"
    /\ conversation_log.tail[Len(conversation_log.tail) - 1].content = "payload"
    /\ LastCallRecursive("missing")
    /\ result = "error: No context subset provided for recursive LM call"
    /\ recursive_calls = 0

\* ---- C29
\* The log has grown by one tool_result entry for the call at call_idx.
OneToolResultLogged ==
    /\ LogLen(conversation_log') = LogLen(conversation_log) + 1
    /\ Len(conversation_log'.tail) = Len(conversation_log.tail) + 1
    /\ SubSeq(conversation_log'.tail, 1, Len(conversation_log.tail)) = conversation_log.tail
    /\ conversation_log'.tail[Len(conversation_log'.tail)].type = "tool_result"
    /\ conversation_log'.tail[Len(conversation_log'.tail)].call = call_idx

\* The batch results have grown by one message for the call at call_idx.
OneToolResultCollected ==
    /\ Len(tool_results') = Len(tool_results) + 1
    /\ SubSeq(tool_results', 1, Len(tool_results)) = tool_results
    /\ tool_results'[Len(tool_results')].tool_call_id = call_idx

\* A step that issues the recursive chat call, and the step that takes its
\* answer.
RecursiveStepFrame ==
    /\ (pc # "await_rec" /\ pc' = "await_rec") =>
          /\ current_messages' = current_messages
          /\ conversation_log' = conversation_log
          /\ tool_results' = tool_results
          /\ root_calls' = root_calls
    /\ pc = "await_rec" =>
          /\ current_messages' = current_messages
          /\ root_calls' = root_calls
          /\ OneToolResultLogged
          /\ OneToolResultCollected

\* C29: the request of a recursive_lm_call holds the recursive system
\* prompt and the task, prompt and context_subset of its arguments, and no
\* message of the running buffer; issuing it and taking its answer leave
\* the running buffer as it is and add to the log and to the batch results
\* the one entry of this tool call.
C29_RecursiveCallIsolated ==
    /\ [](pc = "await_rec" =>
            request = [by |-> "recursive_lm_call",
                       system_prompt |-> "recursive_lm_system_prompt",
                       messages |-> "task, prompt, context_subset",
                       buffer |-> 0])
    /\ [][RecursiveStepFrame]_vars

\* A recursive call in flight in a later iteration, when the running buffer
\* holds more than the two messages it starts with.
C29_Witness ==
    /\ pc = "await_rec"
    /\ iteration >= 2
    /\ current_messages > 2
    /\ request.by = "recursive_lm_call"
    /\ request.buffer = 0

\* ---- C30
\* C30: no step of process_user_query, and no tool it executes, changes the
\* stored history.
C30_HistoryNeverWritten ==
    [][full_context' = full_context /\ total_messages' = total_messages]_vars

\* A run that has ended after tools were executed on a stored history of one
\* message, which is still what is stored.
C30_Witness ==
    /\ pc = "done"
    /\ iteration >= 2
    /\ conversation_log.n["tool_result"] >= 2
    /\ total_messages = 1
    /\ full_context = StoredHistory(1)

\* ================================================= paging through chunks
\* ---- C34
\* C34: a successful get_context_chunk that reports has_more = false
\* returns an end_index equal to the number of stored messages, also when
\* max_tokens has cut the chunk short.
C34_NoMoreMeansEndOfHistory ==
    (ChunkReturned /\ ~tool_return.has_more) =>
        tool_return.end_index = Len(full_context)

\* ---- C35
\* C35: a get_context_chunk call that returns no error, with
\* 0 <= start_index < end_index and max_tokens >= 0, returns a chunk with at
\* least one message, so that paging from the returned end_index advances.
C35_PagingAdvances ==
    (/\ ChunkReturned
     /\ 0 <= RequestedStart
     /\ RequestedStart < RequestedEnd
     /\ RequestedMaxTokens >= 0) =>
        /\ tool_return.chunk # <<>>
        /\ tool_return.end_index > RequestedStart

\* ===================================================== undeclared tools
\* ---- C36
\* The for loop executes the call it reads: its arguments have decoded.
ExecutesCall ==
    /\ pc = "tools"
    /\ call_idx <= response.ncalls
    /\ tool_call'.args # "unparsable"

\* The step for a call with an undeclared name: the unknown-tool error is
\* the result, logged and collected as an error, and the for loop goes on.
UnknownToolStep ==
    (ExecutesCall /\ tool_call'.name \notin ToolNames) =>
        /\ result' = "error: Unknown tool"
        /\ OneToolResultLogged
        /\ conversation_log'.tail[Len(conversation_log'.tail)].content = "error"
        /\ OneToolResultCollected
        /\ tool_results'[Len(tool_results')].content = "error"
        /\ call_idx' = call_idx + 1
        /\ pc' = "tools"
        /\ exception' = exception
        /\ returned' = returned

\* The step for a call with a declared name, and the step that takes the
\* answer of a recursive call: the result is not the unknown-tool error.
DeclaredToolStep ==
    /\ (ExecutesCall /\ tool_call'.name \in ToolNames /\ pc' # "await_rec") =>
          result' # "error: Unknown tool"
    /\ pc = "await_rec" =>
          /\ tool_call.name \in ToolNames
          /\ result' # "error: Unknown tool"

\* The step after the batch: everything collected goes to the running
\* buffer, which is the request of the next root call.
BatchFedBack ==
    (pc = "tools" /\ pc' = "await_root") =>
        /\ current_messages' = current_messages + 1 + Len(tool_results)
        /\ request' = BufferMessages(current_messages')
        /\ root_calls' = root_calls + 1

\* C36: an executed tool call whose name is not one of the five declared
\* operations gives the result {error: 'Unknown tool: <name>'}, which is
\* logged and collected like any other result; the run is not aborted, and
\* when the batch is done its results are in the running buffer of the next
\* root call.  An executed call with a declared name never gives the
\* unknown-tool error.
C36_UnknownToolIsAnErrorResult ==
    /\ [][UnknownToolStep /\ DeclaredToolStep /\ BatchFedBack]_vars
    /\ []((pc = "tools" /\ call_idx > response.ncalls) => ENABLED ContinueLoop)

\* The next root call is in flight after a batch that ended with an
\* undeclared tool, with the error among the messages of the buffer.
C36_Witness ==
    /\ pc = "await_root"
    /\ root_calls >= 2
    /\ tool_call.name = "undeclared_tool"
    /\ result = "error: Unknown tool"
    /\ tool_results # <<>>
    /\ tool_results[Len(tool_results)].content = "error"
    /\ request = BufferMessages(current_messages)
    /\ current_messages >= 4

\* ================================================ matching on its own
\* Longest query and longest text of the exhaustive part of the inputs of
\* find_match_positions.
MaxQueryLen == 2

MaxMatchTextLen == 4

\* n characters that are in no pattern below except as a word boundary.
Spaces(n) == [i \in 1..n |-> " "]

\* Patterns longer than the smallest window.
LongPatterns == {<<"a", "b", "a", "b">>, <<"A", "b", " ", "a", "B">>}

\* Texts longer than a window with its buffer: the characters of a pattern
\* within one window, spread over more than one window, and at the end of
\* the text after more than a window of other characters.
LongTexts ==
    {<<"a">> \o Spaces(WindowBuffer + 1) \o <<"b">>,
     <<"a">> \o Spaces(WindowBuffer + 2) \o <<"b">>,
     <<"b">> \o Spaces(WindowBuffer + MinWindow) \o <<"a", "B", "a", "b">>,
     <<"a", "b", " ", "A", "b", " ", "a", "b", "a", "b">>}

MatchArguments ==
    [pattern : Strings(FuzzyChars, MaxQueryLen) \cup LongPatterns,
     text : Strings(FuzzyChars, MaxMatchTextLen) \cup LongTexts]

\* ------------------------------------------------------------- SpecMatch
InitMatch ==
    /\ Idle
    /\ pc = "tool_call"
    /\ tool_call = NoCall
    /\ full_context = <<>>
    /\ total_messages = 0
    /\ arguments \in MatchArguments
    /\ tool_return = <<>>

\* search.find_match_positions(arguments.pattern, arguments.text)
CallFindMatchPositions ==
    /\ pc = "tool_call"
    /\ pc' = "tool_returned"
    /\ tool_call' = [name |-> "find_match_positions", args |-> "decoded"]
    /\ tool_return' = find_match_positions(arguments.pattern, arguments.text)
    /\ UNCHANGED <<run_vars, total_messages, full_context, arguments>>

NextMatch ==
    \/ CallFuzzyMatchScore
    \/ CallFindMatchPositions

SpecMatch == InitMatch /\ [][NextMatch]_vars

\* find_match_positions has returned.
PositionsReturned == pc = "tool_returned" /\ tool_call.name = "find_match_positions"

\* ---- C37
\* The window starts of find_match_positions for a lower-cased pattern p
\* and text t.
WindowStarts(p, t) == 0..(Len(t) - Max(Len(p), MinWindow))

\* The window at i of the lower-cased text t has p as a subsequence.
InWindow(p, t, i) == IsSubsequence(p, Window(t, i, Max(Len(p), MinWindow)))

\* C37: for a non-empty pattern that is a case-insensitive subsequence of
\* the text the score is above 0.5; so in find_match_positions a window
\* passes the threshold exactly when the pattern is a subsequence of it,
\* every such window gives one span, in window order, and every span
\* (start, end) has 0 <= start < end <= len(text), begins at the first
\* and ends after the last pattern character, inside its window.
C37_SubsequenceScoresAboveHalf ==
    LET p == LowerCased(arguments.pattern)
        t == LowerCased(arguments.text)
        passing == {i \in WindowStarts(p, t) : InWindow(p, t, i)}
    IN  /\ (ScoreReturned /\ p # <<>> /\ IsSubsequence(p, t)) =>
              Less(Fraction(1, 2), tool_return)
        /\ (PositionsReturned /\ p # <<>>) =>
              /\ \A i \in WindowStarts(p, t) :
                    Less(Fraction(1, 2),
                         fuzzy_match_score(p, Window(t, i, Max(Len(p), MinWindow))))
                       <=> InWindow(p, t, i)
              /\ Len(tool_return) = Cardinality(passing)
              /\ \A k \in 1..Len(tool_return) :
                    LET start == tool_return[k][1]
                        end == tool_return[k][2]
                        i == Nth(passing, k)
                    IN  /\ 0 <= start /\ start < end /\ end <= Len(t)
                        /\ i <= start
                        /\ end <= i + Max(Len(p), MinWindow) + WindowBuffer
                        /\ t[start + 1] = p[1]
                        /\ t[end] = p[Len(p)]
                        /\ end - start >= Len(p)

\* A text where the pattern is a subsequence of the text and of no window
\* (no span), and a text where it is a subsequence of the first windows and
\* not of the last: the spans of the passing windows are returned.
C37_Witness ==
    /\ PositionsReturned
    /\ arguments.pattern = <<"a", "b">>
    /\ arguments.text = <<"a", "b", " ", "A">>
    /\ tool_return = <<<<0, 2>>>>
    /\ find_match_positions(<<"a", "b">>,
                            <<"a">> \o Spaces(WindowBuffer + 2) \o <<"b">>) = <<>>
    /\ Less(Fraction(1, 2),
            fuzzy_match_score(<<"a", "b">>,
                              <<"a">> \o Spaces(WindowBuffer + 2) \o <<"b">>))

\* ---- C38
\* The lower-cased pattern p occurs in the lower-cased text t as a
\* contiguous substring.
IsSubstring(p, t) ==
    \E j \in 0..(Len(t) - Len(p)) : SubSeq(t, j + 1, j + Len(p)) = p

\* C38: for a non-empty query and a content that contains it as a
\* contiguous case-insensitive substring, find_match_positions returns at
\* least one span, whatever the lengths of query and content.
C38_SubstringFound ==
    (/\ PositionsReturned
     /\ arguments.pattern # <<>>
     /\ IsSubstring(LowerCased(arguments.pattern), LowerCased(arguments.text))) =>
        tool_return # <<>>

\* ========================================================== cancellation
\* The caller cancels the task while process_user_query is suspended on a
\* chat call, the root one or the one of recursive_lm_call: CancelledError
\* is raised at the await.  It is not an Exception, so neither the except
\* branch of _recursive_lm_call nor the one of process_user_query takes it:
\* it leaves process_user_query, nothing is returned and the locals, the
\* log among them, go with the frame.
Cancel ==
    /\ pc \in {"await_root", "await_rec"}
    /\ pc' = "cancelled"
    /\ exception' = "CancelledError"
    /\ request' = NoRequest
    /\ UNCHANGED <<response, iteration, conversation_log, current_messages,
                   tool_results, call_idx, tool_call, result, root_calls,
                   total_messages, returned, recursive_calls>>
    /\ UNCHANGED tool_vars

NextCancel ==
    \/ Next
    \/ Cancel

SpecCancel == Init /\ [][NextCancel]_vars

\* ---- C32
\* C32: when the caller cancels a run that is suspended on a backend call,
\* the run stops without further backend calls or tool executions, and the
\* log produced up to the last completed iteration is available to the
\* caller as a partial log.
C32_CancelKeepsPartialLog ==
    /\ [][pc = "cancelled" =>
            /\ pc' = "cancelled"
            /\ root_calls' = root_calls
            /\ recursive_calls' = recursive_calls
            /\ call_idx' = call_idx]_vars
    /\ [](pc = "cancelled" =>
            /\ returned # NotReturned
            /\ returned.conversation_log = conversation_log)

\* ================================================================ storage
\* ConversationStorage and RLMStorage.  A string is the sequence of its
\* pieces, so that an f-string and os.path.join concatenate.

\* Messages appended in one behaviour.
MaxAppends == 3

\* Readings of the clock within one second of strftime('%H%M%S').
TicksPerSecond == 2

\* The identifiers a request can carry: request.conversation_id is any
\* string.
ConversationIds == {<<"x">>, <<"y">>, <<"rlm_mode", "/", "rlm_", "x">>}

MessageRoles == {"user", "assistant"}

MessageContents == {"hello"}

\* os.path.join(dir, name)
PathJoin(dir, name) ==
    IF name[1] = "/" THEN name ELSE dir \o <<"/">> \o name

\* storage_dir, base_storage_dir
storage_dir == <<"conversations">>

rlm_dir == PathJoin(storage_dir, <<"rlm_mode">>)

rlm_agent_dir == PathJoin(storage_dir, <<"rlm_agents">>)

\* The directories made by os.makedirs in the two constructors.
Directories == {storage_dir, rlm_dir, rlm_agent_dir}

\* f"rlm_{base_conversation_id}"
get_rlm_conversation_id(base_conversation_id) == <<"rlm_">> \o base_conversation_id

\* f"rlm_agent_{base_conversation_id}"
get_rlm_agent_conversation_id(base_conversation_id) ==
    <<"rlm_agent_">> \o base_conversation_id

\* filepath of load_conversation and save_conversation
StandardPath(conversation_id) ==
    PathJoin(storage_dir, conversation_id \o <<".json">>)

\* filepath of load_rlm_conversation and save_rlm_conversation
RlmPath(conversation_id) ==
    PathJoin(rlm_dir, get_rlm_conversation_id(conversation_id) \o <<".json">>)

\* filepath of load_rlm_agent_conversation and save_rlm_agent_conversation
AgentPath(conversation_id) ==
    PathJoin(rlm_agent_dir, get_rlm_agent_conversation_id(conversation_id) \o <<".json">>)

\* The directory a file path lies in.
Parent(path) ==
    LET slash == CHOOSE i \in 1..Len(path) :
                    /\ path[i] = "/"
                    /\ \A j \in (i + 1)..Len(path) : path[j] # "/"
    IN  SubSeq(path, 1, slash - 1)

\* open(filepath, 'w') succeeds: the directory is there.
CanWrite(path) == Parent(path) \in Directories

\* os.path.exists(filepath)
Exists(fs, path) == path \in DOMAIN fs

\* The three load_ functions: [] when the file is not there.
Load(fs, path) == IF Exists(fs, path) THEN fs[path] ELSE <<>>

\* The three save_ functions: the file holds messages and nothing else.
Save(fs, path, messages) ==
    [q \in DOMAIN fs \cup {path} |-> IF q = path THEN messages ELSE fs[q]]

\* strftime('%H%M%S') of the clock reading now.
HHMMSS(now) == now \div TicksPerSecond

\* str(uuid.uuid4()): a value no other call returns; now tells the calls
\* apart.
Uuid4(now) == [prefix |-> "uuid4", n |-> now, hhmmss |-> 0]

\* Seeded fault: the id is made of the time alone.
RlmMessageId_TimeOnly(messages, now) ==
    [prefix |-> "rlm_", n |-> 0, hhmmss |-> HHMMSS(now)]

\* f"rlm_{len(messages) + 1}_{datetime.now().strftime('%H%M%S')}"
RlmMessageId(messages, now) ==
    [prefix |-> "rlm_", n |-> Len(messages) + 1, hhmmss |-> HHMMSS(now)]

\* f"agent_{len(messages) + 1}_{datetime.now().strftime('%H%M%S')}"
AgentMessageId(messages, now) ==
    [prefix |-> "agent_", n |-> Len(messages) + 1, hhmmss |-> HHMMSS(now)]

\* The message of append_message.
StandardMessage(role, content, now) ==
    [id |-> Uuid4(now), role |-> role, content |-> content, timestamp |-> now]

\* The message of append_rlm_message.
RlmMessage(messages, role, content, now) ==
    [id |-> RlmMessageId(messages, now), role |-> role, content |-> content,
     timestamp |-> now, conversation_mode |-> "rlm"]

\* The message of append_rlm_agent_message.
AgentMessage(messages, role, content, metadata, now) ==
    [id |-> AgentMessageId(messages, now), role |-> role, content |-> content,
     timestamp |-> now, metadata |-> metadata]

\* The files after append_message, append_rlm_message and
\* append_rlm_agent_message: load, append, save.
append_message(fs, conversation_id, role, content, now) ==
    LET messages == Load(fs, StandardPath(conversation_id))
    IN  Save(fs, StandardPath(conversation_id),
             Append(messages, StandardMessage(role, content, now)))

append_rlm_message(fs, conversation_id, role, content, now) ==
    LET messages == Load(fs, RlmPath(conversation_id))
    IN  Save(fs, RlmPath(conversation_id),
             Append(messages, RlmMessage(messages, role, content, now)))

append_rlm_agent_message(fs, conversation_id, role, content, metadata, now) ==
    LET messages == Load(fs, AgentPath(conversation_id))
    IN  Save(fs, AgentPath(conversation_id),
             Append(messages, AgentMessage(messages, role, content, metadata, now)))

\* The files after switch_to_rlm_mode: each of the two files is made,
\* empty, when it is not there.
switch_to_rlm_mode(fs, conversation_id) ==
    LET with_rlm == IF Exists(fs, RlmPath(conversation_id)) THEN fs
                    ELSE Save(fs, RlmPath(conversation_id), <<>>)
    IN  IF Exists(with_rlm, AgentPath(conversation_id)) THEN with_rlm
        ELSE Save(with_rlm, AgentPath(conversation_id), <<>>)

\* is_rlm_conversation
is_rlm_conversation(fs, conversation_id) == Exists(fs, RlmPath(conversation_id))

\* standard_msg of migrate_from_rlm_mode: the four fields of msg.
StandardCopy(msg) ==
    [id |-> msg.id, role |-> msg.role, content |-> msg.content,
     timestamp |-> msg.timestamp]

\* The files after migrate_from_rlm_mode when there are RLM messages: the
\* standard file is saved with their copies; the RLM files stay.
migrate_from_rlm_mode(fs, conversation_id) ==
    LET rlm_messages == Load(fs, RlmPath(conversation_id))
        standard_messages ==
            [i \in 1..Len(rlm_messages) |-> StandardCopy(rlm_messages[i])]
    IN  Save(fs, StandardPath(conversation_id), standard_messages)

\* all_messages.sort(key=timestamp): the sort is stable.  sorted holds the
\* messages placed so far.
RECURSIVE SortByTimestamp(_, _)
SortByTimestamp(messages, sorted) ==
    IF messages = <<>> THEN sorted
    ELSE LET m == Head(messages)
             before == Cardinality({i \in 1..Len(sorted) :
                                       sorted[i].timestamp <= m.timestamp})
         IN  SortByTimestamp(Tail(messages),
                             SubSeq(sorted, 1, before) \o <<m>>
                                \o SubSeq(sorted, before + 1, Len(sorted)))

\* get_full_history_for_search
get_full_history_for_search(fs, conversation_id) ==
    SortByTimestamp(Load(fs, StandardPath(conversation_id))
                        \o Load(fs, RlmPath(conversation_id)), <<>>)


\* ----------------------------------------------------------- SpecStorage
\* The storage operations called one after the other on the conversations
\* of ConversationIds.
agent_vars == <<response, iteration, conversation_log, current_messages,
                tool_results, call_idx, result, root_calls, exception,
                returned, call_vars, total_messages, full_context>>

InitStorage ==
    /\ Idle
    /\ pc = "storage"
    /\ tool_call = NoCall
    /\ full_context = <<>>
    /\ total_messages = 0
    /\ arguments = <<>>
    /\ tool_return = <<>>

\* The call of a storage operation on a conversation.
StorageCall(name, conversation_id) ==
    /\ tool_call' = [name |-> name, args |-> "decoded"]
    /\ arguments' = [conversation_id |-> conversation_id]

\* The end of an operation that saves the file at path: the files are fs
\* and value is returned, or open() raises where the directory of the path
\* is missing.
Saved(path, fs, value) ==
    IF CanWrite(path)
    THEN /\ files' = fs
         /\ tool_return' = [value |-> value]
    ELSE /\ files' = files
         /\ tool_return' = [error |-> "FileNotFoundError"]

\* storage.append_message(conversation_id, role, content)
AppendMessage(conversation_id, role, content) ==
    /\ pc = "storage"
    /\ clock < MaxAppends
    /\ StorageCall("append_message", conversation_id)
    /\ Saved(StandardPath(conversation_id),
             append_message(files, conversation_id, role, content, clock),
             Uuid4(clock))
    /\ clock' = clock + 1
    /\ UNCHANGED <<pc, agent_vars, handlers>>

\* rlm_storage.append_rlm_message(conversation_id, role, content)
AppendRlmMessage(conversation_id, role, content) ==
    /\ pc = "storage"
    /\ clock < MaxAppends
    /\ StorageCall("append_rlm_message", conversation_id)
    /\ Saved(RlmPath(conversation_id),
             append_rlm_message(files, conversation_id, role, content, clock),
             RlmMessageId(Load(files, RlmPath(conversation_id)), clock))
    /\ clock' = clock + 1
    /\ UNCHANGED <<pc, agent_vars, handlers>>

\* rlm_storage.append_rlm_agent_message(conversation_id, role, content)
AppendRlmAgentMessage(conversation_id, role, content) ==
    /\ pc = "storage"
    /\ clock < MaxAppends
    /\ StorageCall("append_rlm_agent_message", conversation_id)
    /\ Saved(AgentPath(conversation_id),
             append_rlm_agent_message(files, conversation_id, role, content,
                                      "{}", clock),
             AgentMessageId(Load(files, AgentPath(conversation_id)), clock))
    /\ clock' = clock + 1
    /\ UNCHANGED <<pc, agent_vars, handlers>>

\* rlm_storage.switch_to_rlm_mode(conversation_id)
SwitchToRlmMode(conversation_id) ==
    /\ pc = "storage"
    /\ StorageCall("switch_to_rlm_mode", conversation_id)
    /\ Saved(RlmPath(conversation_id),
             switch_to_rlm_mode(files, conversation_id),
             <<get_rlm_conversation_id(conversation_id),
               get_rlm_agent_conversation_id(conversation_id)>>)
    /\ UNCHANGED <<pc, agent_vars, clock, handlers>>

\* rlm_storage.migrate_from_rlm_mode(conversation_id): False when there is
\* no RLM message.
MigrateFromRlmMode(conversation_id) ==
    /\ pc = "storage"
    /\ StorageCall("migrate_from_rlm_mode", conversation_id)
    /\ IF Load(files, RlmPath(conversation_id)) = <<>>
       THEN /\ files' = files
            /\ tool_return' = [value |-> FALSE]
       ELSE Saved(StandardPath(conversation_id),
                  migrate_from_rlm_mode(files, conversation_id), TRUE)
    /\ UNCHANGED <<pc, agent_vars, clock, handlers>>

\* rlm_storage.get_full_history_for_search(conversation_id)
GetFullHistoryForSearch(conversation_id) ==
    /\ pc = "storage"
    /\ StorageCall("get_full_history_for_search", conversation_id)
    /\ tool_return' = [value |-> get_full_history_for_search(files, conversation_id)]
    /\ UNCHANGED <<pc, agent_vars, storage_vars>>

NextStorage ==
    \/ \E c \in ConversationIds, r \in MessageRoles, t \in MessageContents :
          AppendMessage(c, r, t)
    \/ \E c \in ConversationIds, r \in MessageRoles, t \in MessageContents :
          AppendRlmMessage(c, r, t)
    \/ \E c \in ConversationIds, r \in MessageRoles, t \in MessageContents :
          AppendRlmAgentMessage(c, r, t)
    \/ \E c \in ConversationIds : SwitchToRlmMode(c)
    \/ \E c \in ConversationIds : MigrateFromRlmMode(c)
    \/ \E c \in ConversationIds : GetFullHistoryForSearch(c)

SpecStorage == InitStorage /\ [][NextStorage]_vars

\* ---- C31
\* No two messages of a list have the same id.
DistinctIds(messages) ==
    \A i, j \in 1..Len(messages) : i < j => messages[i].id # messages[j].id

\* C31: after any sequence of append_message, append_rlm_message,
\* switch_to_rlm_mode and migrate_from_rlm_mode on a conversation, the list
\* get_full_history_for_search returns holds no two messages with the same
\* id.
C31_FullHistoryIdsDistinct ==
    \A c \in ConversationIds : DistinctIds(get_full_history_for_search(files, c))

\* ---- C39
\* C39: migrate_from_rlm_mode loses no persisted message: the messages of
\* the standard history before the migration are in it afterwards, in the
\* same order, together with the RLM messages.
C39_MigrationKeepsStandardHistory ==
    [][tool_call'.name = "migrate_from_rlm_mode" =>
          LET c == arguments'.conversation_id
              before == Load(files, StandardPath(c))
              after == Load(files', StandardPath(c))
              rlm_messages == Load(files, RlmPath(c))
          IN  /\ IsSubsequence(before, after)
              /\ tool_return' = [value |-> TRUE] =>
                    \A i \in 1..Len(rlm_messages) :
                        \E j \in 1..Len(after) : after[j].id = rlm_messages[i].id]_vars

\* ---- C33
\* The three tracks of a conversation: standard history, RLM dialogue and
\* agent log.
Tracks(fs, conversation_id) ==
    [standard |-> Load(fs, StandardPath(conversation_id)),
     rlm |-> Load(fs, RlmPath(conversation_id)),
     agent |-> Load(fs, AgentPath(conversation_id))]

\* C33: an operation on the conversation A leaves every track of every
\* other conversation B as it is.
C33_OtherConversationsUntouched ==
    [][\A b \in ConversationIds \ {arguments'.conversation_id} :
          Tracks(files', b) = Tracks(files, b)]_vars


\* ============================================================== rlm_chat
\* Concurrent rlm_chat requests on one conversation.  A handler runs
\* without interruption up to its only await, the call of
\* process_user_query, and again from there to its end; the storage
\* operations are synchronous.

\* Requests served in one behaviour.
MaxRequests == 3

\* Entries of the conversation_log of one run.
MaxLogEntries == 2

Requests == 1..MaxRequests

\* The conversation all the requests are on.
ChatConversation == <<"x">>

\* A handler that has not been entered.
IdleHandler == [pc |-> "idle", user_message_id |-> "none",
                assistant_message_id |-> "none", log_entries |-> 0]

\* request.message, final_answer and the contents of the agent log, by the
\* request they belong to.
ChatContent(text, r, entry) == [text |-> text, request |-> r, entry |-> entry]

\* The loop of lines 309-320 from entry j on: one append_rlm_agent_message
\* for every entry of rlm_result["conversation_log"].
RECURSIVE SaveLog(_, _, _, _, _)
SaveLog(fs, r, j, log_entries, now) ==
    IF j > log_entries THEN fs
    ELSE SaveLog(append_rlm_agent_message(fs, ChatConversation, "system",
                                          ChatContent("log entry", r, j),
                                          "timestamp, type", now),
                 r, j + 1, log_entries, now + 1)

InitChat ==
    /\ pc = "serving"
    /\ response = NoResponse
    /\ iteration = 0
    /\ conversation_log = EmptyLog
    /\ current_messages = 0
    /\ tool_results = <<>>
    /\ call_idx = 0
    /\ tool_call = NoCall
    /\ result = NoToolResult
    /\ root_calls = 0
    /\ total_messages = 0
    /\ exception = "none"
    /\ returned = NotReturned
    /\ full_context = <<>>
    /\ arguments = <<>>
    /\ tool_return = <<>>
    /\ request = NoRequest
    /\ recursive_calls = 0
    /\ files = NoFiles
    /\ clock = 0
    /\ handlers = [r \in Requests |-> IdleHandler]

\* rlm_chat up to its await: the RLM files are made if the conversation is
\* new, the user message is appended to the RLM dialogue and
\* process_user_query is called.
RlmChatReceive(r) ==
    /\ pc = "serving"
    /\ handlers[r].pc = "idle"
    /\ LET fs == IF is_rlm_conversation(files, ChatConversation) THEN files
                 ELSE switch_to_rlm_mode(files, ChatConversation)
       IN  /\ files' = append_rlm_message(fs, ChatConversation, "user",
                                          ChatContent("message", r, 0), clock)
           /\ handlers' =
                 [handlers EXCEPT ![r].pc = "awaiting",
                                  ![r].user_message_id =
                                      RlmMessageId(Load(fs, RlmPath(ChatConversation)),
                                                   clock)]
    /\ clock' = clock + 1
    /\ UNCHANGED <<pc, agent_vars, tool_call, arguments, tool_return>>

\* process_user_query has returned a result whose log has log_entries
\* entries: the summary entry and the log go to the agent log, the answer
\* is appended to the RLM dialogue and the response is returned.
RlmChatRespond(r, log_entries) ==
    /\ pc = "serving"
    /\ handlers[r].pc = "awaiting"
    /\ LET noted == append_rlm_agent_message(
                        files, ChatConversation, "system",
                        ChatContent("True RLM processing for query", r, 0),
                        "agent_metadata", clock)
           logged == SaveLog(noted, r, 1, log_entries, clock + 1)
           now == clock + 1 + log_entries
       IN  /\ files' = append_rlm_message(logged, ChatConversation, "assistant",
                                          ChatContent("answer", r, 0), now)
           /\ handlers' =
                 [handlers EXCEPT ![r].pc = "done",
                                  ![r].assistant_message_id =
                                      RlmMessageId(Load(logged, RlmPath(ChatConversation)),
                                                   now),
                                  ![r].log_entries = log_entries]
           /\ clock' = now + 1
    /\ UNCHANGED <<pc, agent_vars, tool_call, arguments, tool_return>>

\* process_user_query has returned a result whose answer has no len()
\* (final_answer arguments with a number or null as answer): line 297
\* raises TypeError and the handler answers with HTTP 500, before any
\* write.
RlmChatFails(r) ==
    /\ pc = "serving"
    /\ handlers[r].pc = "awaiting"
    /\ handlers' = [handlers EXCEPT ![r].pc = "failed"]
    /\ UNCHANGED <<pc, agent_vars, tool_call, arguments, tool_return, files, clock>>

NextChat ==
    \/ \E r \in Requests : RlmChatReceive(r)
    \/ \E r \in Requests, n \in 0..MaxLogEntries : RlmChatRespond(r, n)
    \/ \E r \in Requests : RlmChatFails(r)

SpecChat == InitChat /\ [][NextChat]_vars

\* ---- C40
\* The position of the message of request r with the given role in the RLM
\* dialogue.
PlacesOf(track, role, r) ==
    {i \in 1..Len(track) : track[i].role = role /\ track[i].content.request = r}

\* C40: under any interleaving of rlm_chat requests on one conversation no
\* persisted message is lost or duplicated: the RLM dialogue holds one user
\* message for every request that was received and one assistant message
\* for every request that has completed, and nothing else (so n user and n
\* assistant messages once the n requests received have completed), with
\* pairwise distinct ids, the ids the handlers got back; the user message of
\* a request precedes its assistant message; the log entries of the runs
\* are in the agent log only.
C40_ConcurrentChatsKeepDialogue ==
    LET track == Load(files, RlmPath(ChatConversation))
        agent_log == Load(files, AgentPath(ChatConversation))
        received == {r \in Requests : handlers[r].pc # "idle"}
        completed == {r \in Requests : handlers[r].pc = "done"}
    IN  pc = "serving" =>
        /\ DistinctIds(track)
        /\ Len(track) = Cardinality(received) + Cardinality(completed)
        /\ \A r \in Requests :
              /\ Cardinality(PlacesOf(track, "user", r)) = IF r \in received THEN 1 ELSE 0
              /\ Cardinality(PlacesOf(track, "assistant", r)) =
                    IF r \in completed THEN 1 ELSE 0
        /\ \A r \in completed :
              \A u \in PlacesOf(track, "user", r), a \in PlacesOf(track, "assistant", r) :
                  /\ u < a
                  /\ track[u].id = handlers[r].user_message_id
                  /\ track[a].id = handlers[r].assistant_message_id
        /\ \A i \in 1..Len(track) :
              /\ track[i].role \in {"user", "assistant"}
              /\ track[i].content.text \in {"message", "answer"}
        /\ received = completed =>
              /\ Cardinality({i \in 1..Len(track) : track[i].role = "user"})
                    = Cardinality(completed)
              /\ Cardinality({i \in 1..Len(track) : track[i].role = "assistant"})
                    = Cardinality(completed)
        /\ DistinctIds(agent_log)
        /\ Len(agent_log) =
              Cardinality({<<r, j>> \in Requests \X (0..MaxLogEntries) :
                              r \in completed /\ j <= handlers[r].log_entries})
        /\ \A i \in 1..Len(agent_log) :
              agent_log[i].content.text \in {"True RLM processing for query", "log entry"}
        /\ Load(files, StandardPath(ChatConversation)) = <<>>

\* Two requests were received before either run ended, the second
\* completed first with a log of two entries, then the first; a third
\* failed after its user message was saved.
C40_Witness ==
    LET track == Load(files, RlmPath(ChatConversation))
    IN  /\ pc = "serving"
        /\ handlers[1].pc = "done"
        /\ handlers[2].pc = "done"
        /\ handlers[2].log_entries = 2
        /\ Len(track) >= 4
        /\ track[1].content = ChatContent("message", 1, 0)
        /\ track[2].content = ChatContent("message", 2, 0)
        /\ track[3].content = ChatContent("answer", 2, 0)
        /\ track[4].content = ChatContent("answer", 1, 0)
        /\ track[1].id.hhmmss = track[2].id.hhmmss

====
